---------------------------- MODULE Spec2Model ----------------------------
(***************************************************************************)
(* Planet-walk core of the portfolio world: the animation frame (jump      *)
(* charge, fixed-step physics, locomotion, camera rig) and the input       *)
(* handlers that act between frames.                                       *)
(*                                                                         *)
(* Sources: src/js/physics.js (updatePhysics, checkForwardCollision, keys, *)
(* introActive), src/unnamed/part_001 (controls: setupControls,            *)
(* toggleBirdEyeView, resetToSpawn, handleMovement, updateCamera),         *)
(* src/js/main.js and src/js/lighting.js (animate), src/js/environment.js  *)
(* (character rotation), src/js/world.js (rotateToSpawn), src/js/config.js *)
(*                                                                         *)
(* Numbers are exact integers in fixed units, chosen so that every         *)
(* constant of config.js and every product the code forms is an integer:   *)
(*   time      TU = 1/600 s        (FIXED_TIMESTEP 1/60 s = 10 TU)         *)
(*   velocity  VU = 1/30 unit/s    (gravity 20 unit/s^2 = 1 VU per TU)     *)
(*   height    HU = 1/18000 unit   (1 VU * 1 TU = 1 HU)                    *)
(*   speed     SU = 1/6000 rad/s   (0.8 rad/s^2 = 8 SU per TU)             *)
(*   heading   AU = 1/300 rad, measured from Math.PI                       *)
(*             (TURN_SPEED 2 rad/s = 1 AU per TU)                          *)
(*   camera distance  CU = 1/200 unit                                      *)
(* JavaScript is single threaded: a frame (animate) and an event handler   *)
(* never interleave.  A frame is modelled as its successive calls          *)
(* (AnimateBegin, one PhysicsStep per updatePhysics call, MovementStep,    *)
(* CameraStep); handlers run only between frames (pc = "idle").            *)
(***************************************************************************)
EXTENDS Integers, Sequences, FiniteSets, TLC

VARIABLES
    introActive,            \* ui: intro screen showing
    keys,                   \* ui: keys = {w, a, s, d, space, shift}
    physics,                \* physics: velocity.y, isGrounded, jumpCharging, jumpChargeTime
    positionY,              \* characterGroup.position.y (x and z are always 0)
    characterRotation,      \* character heading
    planetQuat,             \* planetGroup.quaternion <<x, y, z, w>>
    collisionMeshes,        \* the static collision mesh set (which world was loaded)
    initialSpawn,           \* window.initialSpawnRotation / window.initialSpawnY
    currentMoveSpeed,
    isSprinting,
    currentCameraDistance,
    detachedCamera,
    isDragging,
    birdEyeRotation,
    savedPlanetRotation,
    savedCharacterRotation,
    savedCharacterPosition,
    physicsAccumulator,
    deltaTime,              \* animate's clamped frame delta
    pc,                     \* position inside animate: "idle", "physics", "camera"
    lastOp,                 \* history: the operation that ran last
    preToggle,              \* history: orientation and anchor when detached mode was
                            \* entered, and the drags since then
    birdEyeDistance,        \* zoom distance of the bird's eye camera
    cameraFov,              \* camera.fov of the follow camera
    performanceManager,     \* the PerformanceManager object
    solar                   \* the solar-system page: state.mode, isDragging, ...

vars == <<introActive, keys, physics, positionY, characterRotation, planetQuat,
          collisionMeshes, initialSpawn, currentMoveSpeed, isSprinting,
          currentCameraDistance, detachedCamera, isDragging, birdEyeRotation,
          savedPlanetRotation, savedCharacterRotation, savedCharacterPosition,
          physicsAccumulator, deltaTime, pc, lastOp, preToggle,
          birdEyeDistance, cameraFov, performanceManager, solar>>

Abs(x) == IF x < 0 THEN -x ELSE x
Min(a, b) == IF a <= b THEN a ELSE b
Max(a, b) == IF a >= b THEN a ELSE b

(***************************************************************************)
(* config.js and the literals of physics.js / main.js, in model units.     *)
(***************************************************************************)
GRAVITY == 1                    \* 20 unit/s^2
JUMP_FORCE == 150               \* physics.jumpForce 5.0 unit/s
FIXED_TIMESTEP == 10            \* 1/60 s
MAX_DELTA == 60                 \* Math.min(deltaTime, 0.1)
JUMP_CHARGE_DELAY == 180        \* jumpChargeDelay 0.3 s
GROUND_OFFSET == 540            \* groundOffset 0.03
GROUND_TOLERANCE_BASE == 900    \* 0.05
GROUND_TOLERANCE_PER_VELOCITY == 12  \* 0.02 unit per unit/s
LOOKAHEAD == 18000              \* raycaster.far = movementDistance + 1.0
SAFETY_FAR == 900000            \* raycaster.far = 50
SAFETY_MARGIN == 9000           \* groundY + 0.5
SPAWN_HEIGHT == 234000          \* 13
CHARACTER_HEIGHT == 1350        \* 0.075

(***************************************************************************)
(* The worlds.  The mesh set is static for a session; a downward ray from  *)
(* height originY reports the surface below it, if within range.           *)
(***************************************************************************)
GroundLevel == 232200           \* a surface at 12.9 under the character

NoHit == [hit |-> FALSE, y |-> 0, distance |-> 0]

\* mutant of IntersectDown: a surface is met whatever the collision meshes are
IntersectDownAnyMeshes(meshes, quat, originY, far) ==
    IF originY >= GroundLevel /\ originY - GroundLevel <= far
    THEN [hit |-> TRUE, y |-> GroundLevel, distance |-> originY - GroundLevel]
    ELSE NoHit

\* raycaster.set(rayOrigin, downVector); raycaster.far = far; intersectObjects(...)[0]
IntersectDown(meshes, quat, originY, far) ==
    IF meshes \in {"flat", "walled"} /\ originY >= GroundLevel /\ originY - GroundLevel <= far
    THEN [hit |-> TRUE, y |-> GroundLevel, distance |-> originY - GroundLevel]
    ELSE NoHit

(***************************************************************************)
(* updatePhysics(dt): one fixed tick of vertical physics.  p is the        *)
(* physics record, y the character height; the result is the pair after   *)
(* the tick.                                                               *)
(***************************************************************************)
SafetyNet(meshes, quat, originY, res) ==
    LET safetyCheck == IntersectDown(meshes, quat, originY, SAFETY_FAR)
    IN  IF safetyCheck.hit /\ res.y < safetyCheck.y
        THEN [y |-> safetyCheck.y + SAFETY_MARGIN,
              p |-> [res.p EXCEPT !.velY = 0, !.isGrounded = TRUE]]
        ELSE res

\* mutant of MainResolution: the snap forgets to zero the velocity
MainResolutionKeepsVelocity(meshes, quat, p, y, dt) ==
    LET vel == p.velY - GRAVITY * dt
        movementDelta == vel * dt
        newY == y + movementDelta
        hit == IntersectDown(meshes, quat, y, Abs(movementDelta) + LOOKAHEAD)
        groundTolerance == GROUND_TOLERANCE_BASE + Abs(vel) * GROUND_TOLERANCE_PER_VELOCITY
    IN  IF movementDelta < 0 /\ hit.hit
           /\ (y - hit.y <= groundTolerance \/ newY <= hit.y + GROUND_OFFSET)
        THEN [y |-> hit.y + GROUND_OFFSET, p |-> [p EXCEPT !.velY = vel, !.isGrounded = TRUE]]
        ELSE [y |-> newY, p |-> [p EXCEPT !.velY = vel, !.isGrounded = FALSE]]

\* mutant of MainResolution: the character is never put on the surface
MainResolutionNoSnap(meshes, quat, p, y, dt) ==
    LET vel == p.velY - GRAVITY * dt
    IN  [y |-> y + vel * dt, p |-> [p EXCEPT !.velY = vel, !.isGrounded = FALSE]]

\* mutant of MainResolution: any hit of the downward probe snaps
MainResolutionSnapOnAnyHit(meshes, quat, p, y, dt) ==
    LET vel == p.velY - GRAVITY * dt
        movementDelta == vel * dt
        newY == y + movementDelta
        hit == IntersectDown(meshes, quat, y, Abs(movementDelta) + LOOKAHEAD)
    IN  IF movementDelta < 0 /\ hit.hit
        THEN [y |-> hit.y + GROUND_OFFSET, p |-> [p EXCEPT !.velY = 0, !.isGrounded = TRUE]]
        ELSE [y |-> newY, p |-> [p EXCEPT !.velY = vel, !.isGrounded = FALSE]]

MainResolution(meshes, quat, p, y, dt) ==
    LET vel == p.velY - GRAVITY * dt
        movementDelta == vel * dt
        newY == y + movementDelta
        falling == [y |-> newY, p |-> [p EXCEPT !.velY = vel, !.isGrounded = FALSE]]
    IN  IF movementDelta < 0
        THEN LET hit == IntersectDown(meshes, quat, y, Abs(movementDelta) + LOOKAHEAD)
                 targetY == hit.y + GROUND_OFFSET
                 distanceToGround == y - hit.y
                 groundTolerance == GROUND_TOLERANCE_BASE
                                      + Abs(vel) * GROUND_TOLERANCE_PER_VELOCITY
                 snapped == [y |-> targetY,
                             p |-> [p EXCEPT !.velY = 0, !.isGrounded = TRUE]]
             IN  IF hit.hit
                 THEN IF distanceToGround <= groundTolerance /\ vel <= 0
                      THEN snapped
                      ELSE IF newY <= hit.y + GROUND_OFFSET
                           THEN snapped
                           ELSE falling
                 ELSE falling
        ELSE falling

UpdatePhysics(meshes, quat, p, y, dt) ==
    SafetyNet(meshes, quat, y, MainResolution(meshes, quat, p, y, dt))

(***************************************************************************)
(* Finite-precision arithmetic.  THREE.Quaternion components, Math.sin and *)
(* Math.cos are binary floating point in the source; here they are fixed   *)
(* point with QScale units to 1.0, every operation rounded to the nearest  *)
(* unit.  Rounding is kept (not idealised away) so that what depends on    *)
(* it, drift of the quaternion norm and increments lost below the          *)
(* resolution, is visible to the checks.                                   *)
(***************************************************************************)
QScale == 1024

\* a / b rounded to the nearest integer (b > 0)
RoundDiv(a, b) == (2 * a + b) \div (2 * b)

\* Math.sin(num/den) and Math.cos(num/den) in QScale units, |num/den| <= 1:
\* the series summed with TrigGuard times the resolution, then rounded once,
\* so that the result is within a unit of the true value
TrigGuard == 16

SinQ(num, den) ==
    LET one == TrigGuard * QScale
        x  == RoundDiv(one * num, den)
        x2 == RoundDiv(x * x, one)
        x3 == RoundDiv(x2 * x, one)
        x5 == RoundDiv(x3 * x2, one)
        x7 == RoundDiv(x5 * x2, one)
    IN  RoundDiv(x - RoundDiv(x3, 6) + RoundDiv(x5, 120) - RoundDiv(x7, 5040), TrigGuard)

CosQ(num, den) ==
    LET one == TrigGuard * QScale
        x  == RoundDiv(one * num, den)
        x2 == RoundDiv(x * x, one)
        x4 == RoundDiv(x2 * x2, one)
        x6 == RoundDiv(x4 * x2, one)
    IN  RoundDiv(one - RoundDiv(x2, 2) + RoundDiv(x4, 24) - RoundDiv(x6, 720), TrigGuard)

RECURSIVE SqrtSearch(_, _, _)
SqrtSearch(n, lo, hi) ==
    IF lo >= hi THEN lo
    ELSE LET mid == (lo + hi + 1) \div 2
         IN  IF mid * mid <= n THEN SqrtSearch(n, mid, hi) ELSE SqrtSearch(n, lo, mid - 1)

\* Math.sqrt, rounded to the nearest integer
Sqrt(n) ==
    LET r == SqrtSearch(n, 0, 4 * QScale)
    IN  IF n - r * r > r THEN r + 1 ELSE r

IdentityQuat == <<0, 0, 0, QScale>>

\* |q|^2 in units of 1/QScale^2
NormSq(q) == q[1] * q[1] + q[2] * q[2] + q[3] * q[3] + q[4] * q[4]

\* THREE.Quaternion.multiplyQuaternions(a, b): the Hamilton product a * b
MultiplyQuaternions(a, b) ==
    << RoundDiv(a[1] * b[4] + a[4] * b[1] + a[2] * b[3] - a[3] * b[2], QScale),
       RoundDiv(a[2] * b[4] + a[4] * b[2] + a[3] * b[1] - a[1] * b[3], QScale),
       RoundDiv(a[3] * b[4] + a[4] * b[3] + a[1] * b[2] - a[2] * b[1], QScale),
       RoundDiv(a[4] * b[4] - a[1] * b[1] - a[2] * b[2] - a[3] * b[3], QScale) >>

\* THREE.Vector3.normalize(): divideScalar(length() || 1)
Normalize3(v) ==
    LET len == Sqrt(v[1] * v[1] + v[2] * v[2] + v[3] * v[3])
        d   == IF len = 0 THEN QScale ELSE len
    IN  << RoundDiv(v[1] * QScale, d), RoundDiv(v[2] * QScale, d), RoundDiv(v[3] * QScale, d) >>

\* THREE.Quaternion.setFromAxisAngle(axis, angle), angle/2 = halfNum/halfDen rad
SetFromAxisAngle(axis, halfNum, halfDen) ==
    LET s == SinQ(halfNum, halfDen)
    IN  << RoundDiv(axis[1] * s, QScale), RoundDiv(axis[2] * s, QScale),
           RoundDiv(axis[3] * s, QScale), CosQ(halfNum, halfDen) >>

(***************************************************************************)
(* Movement and camera constants of config.js and controls, in model units *)
(***************************************************************************)
MAX_MOVE_SPEED == 750               \* 0.125 rad/s
MOVE_ACCELERATION == 8              \* 0.8 rad/s^2
MOVE_DECELERATION == 15             \* 1.5 rad/s^2
TURN_SPEED == 1                     \* 2 rad/s
SPRINT_MULTIPLIER == 2              \* 2.0
SPRINT_ACCELERATION_NUM == 3        \* SPRINT_ACCELERATION_MULTIPLIER 1.5 = 3/2
SPRINT_ACCELERATION_DEN == 2
CAMERA_DISTANCE_IDLE == 240         \* 1.2
CAMERA_DISTANCE_WALKING == 340      \* 1.7
CAMERA_DISTANCE_SPRINTING == 500    \* 2.5
LERP_DIVISOR == 40                  \* lerpFactor 0.025 = 1/40
PI_HEADING == 0                     \* Math.PI, the origin of the heading unit
FORWARD_FAR == 3600                 \* Raycaster(origin, direction, 0, 0.2)
STEP_HEIGHT_LIMIT == 900            \* stepHeight > 0.05
MIN_CLEARANCE == 2700               \* obstacleDistance < 0.15
ANGLE_DEN == 7200000                \* speed (SU) * deltaTime (TU) / 2, in rad
HEADING_DEN == 300                  \* heading units per rad
DRAG_DEN == 400                     \* rotateSpeed 0.005 rad per pixel, halved

(***************************************************************************)
(* checkForwardCollision(characterRotation, direction)                     *)
(***************************************************************************)
\* forwardRaycaster.intersectObjects(collisionMeshes, false)[0]: a horizontal
\* ray at the anchor height, so a hit lies at that height
ForwardIntersect(meshes, quat, rotation, direction, originY) ==
    IF meshes = "walled"
    THEN [hit |-> TRUE, y |-> originY, distance |-> IF direction < 0 THEN 1800 ELSE 3240]
    ELSE NoHit

\* mutant of CheckForwardCollision: only the clearance test decides
CheckForwardCollisionClearanceOnly(meshes, quat, rotation, direction, y) ==
    LET fwd == ForwardIntersect(meshes, quat, rotation, direction, y)
    IN  fwd.hit /\ fwd.distance < MIN_CLEARANCE

\* mutant of CheckForwardCollision: steps up to 0.1 high may be walked onto
CheckForwardCollisionHighStepLimit(meshes, quat, rotation, direction, y) ==
    LET fwd == ForwardIntersect(meshes, quat, rotation, direction, y)
        stepHeight == fwd.y - (y - CHARACTER_HEIGHT)
    IN  fwd.hit /\ (stepHeight > 2 * STEP_HEIGHT_LIMIT \/ fwd.distance < MIN_CLEARANCE)

CheckForwardCollision(meshes, quat, rotation, direction, y) ==
    LET fwd == ForwardIntersect(meshes, quat, rotation, direction, y)
        obstacleHeight == fwd.y
        obstacleDistance == fwd.distance
        stepHeight == obstacleHeight - (y - CHARACTER_HEIGHT)
    IN  fwd.hit /\ (stepHeight > STEP_HEIGHT_LIMIT \/ obstacleDistance < MIN_CLEARANCE)

(***************************************************************************)
(* handleMovement(deltaTime)                                               *)
(***************************************************************************)
\* rotateCharacter(+-TURN_SPEED * deltaTime) for keys.a and keys.d
TurnedRotation(k, rotation, dt) ==
    LET afterA == IF k.a THEN rotation + TURN_SPEED * dt ELSE rotation
    IN  IF k.d THEN afterA - TURN_SPEED * dt ELSE afterA

\* the speed envelope
MaxSpeed(sprinting) ==
    IF sprinting THEN MAX_MOVE_SPEED * SPRINT_MULTIPLIER ELSE MAX_MOVE_SPEED

Acceleration(sprinting) ==
    IF sprinting
    THEN (MOVE_ACCELERATION * SPRINT_ACCELERATION_NUM) \div SPRINT_ACCELERATION_DEN
    ELSE MOVE_ACCELERATION

\* mutant of NextMoveSpeed: the clamp ignores whether shift is held
NextMoveSpeedSprintClamp(k, speed, dt) ==
    IF k.w \/ k.s
    THEN Min(speed + Acceleration(k.shift) * dt, MaxSpeed(TRUE))
    ELSE Max(speed - MOVE_DECELERATION * dt, 0)

\* mutant of NextMoveSpeed: a held shift counts as move intent
NextMoveSpeedShiftIntent(k, speed, dt) ==
    IF k.w \/ k.s \/ k.shift
    THEN Min(speed + Acceleration(k.shift) * dt, MaxSpeed(k.shift))
    ELSE Max(speed - MOVE_DECELERATION * dt, 0)

NextMoveSpeed(k, speed, dt) ==
    IF k.w \/ k.s
    THEN Min(speed + Acceleration(k.shift) * dt, MaxSpeed(k.shift))
    ELSE Max(speed - MOVE_DECELERATION * dt, 0)

\* rotation.setFromAxisAngle(cross(up, forwardWorld).normalize(),
\*                           direction * currentMoveSpeed * deltaTime)
\* with forwardWorld = (sin r, 0, cos r), r = Math.PI + rotation/HEADING_DEN
WalkRotation(rotation, direction, speed, dt) ==
    LET fx == -SinQ(rotation, HEADING_DEN)
        fz == -CosQ(rotation, HEADING_DEN)
        rotationAxis == Normalize3(<<fz, 0, -fx>>)
    IN  SetFromAxisAngle(rotationAxis, direction * speed * dt, ANGLE_DEN)

\* mutant of MovedPlanet: locomotion does not look at the camera mode
MovedPlanetAnyCamera(meshes, quat, k, rotation, speed, dt, y, detached) ==
    IF speed > 0 /\ (k.w \/ k.s)
    THEN LET direction == IF k.w THEN -1 ELSE 1
             collision == CheckForwardCollision(meshes, quat, rotation, direction, y)
         IN  IF ~collision
             THEN MultiplyQuaternions(WalkRotation(rotation, direction, speed, dt), quat)
             ELSE quat
    ELSE quat

\* the planet rotation after the locomotion step
MovedPlanet(meshes, quat, k, rotation, speed, dt, y, detached) ==
    IF speed > 0 /\ (k.w \/ k.s) /\ ~detached
    THEN LET direction == IF k.w THEN -1 ELSE 1
             collision == CheckForwardCollision(meshes, quat, rotation, direction, y)
         IN  IF ~collision
             THEN MultiplyQuaternions(WalkRotation(rotation, direction, speed, dt), quat)
             ELSE quat
    ELSE quat

(***************************************************************************)
(* updateCamera(time), the follow-mode distance                            *)
(***************************************************************************)
\* mutant of TargetCameraDistance: no sprint distance
TargetCameraDistanceNoSprint(k, sprinting) ==
    IF k.w \/ k.s THEN CAMERA_DISTANCE_WALKING ELSE CAMERA_DISTANCE_IDLE

TargetCameraDistance(k, sprinting) ==
    IF k.w \/ k.s
    THEN IF sprinting THEN CAMERA_DISTANCE_SPRINTING ELSE CAMERA_DISTANCE_WALKING
    ELSE CAMERA_DISTANCE_IDLE

\* mutant of LerpDistance: the step is twice the gap
LerpDistanceTwice(current, target) == current + 2 * (target - current)

LerpDistance(current, target) == current + RoundDiv(target - current, LERP_DIVISOR)

(***************************************************************************)
(* resetToSpawn(): window.initialSpawnY || SPAWN_HEIGHT, and the stored    *)
(* rotation or the identity                                                *)
(***************************************************************************)
\* mutant of ResetY: the stored spawn height is ignored
ResetYDefaultOnly(spawn) == SPAWN_HEIGHT

ResetY(spawn) == IF spawn.stored /\ spawn.y # 0 THEN spawn.y ELSE SPAWN_HEIGHT

ResetRotation(spawn) == IF spawn.stored THEN spawn.rotation ELSE IdentityQuat

(***************************************************************************)
(* State after construction: modules loaded, loadWorld and loadCharacter   *)
(* done, the first animate not yet run.                                    *)
(***************************************************************************)
inputVars == <<introActive, keys>>
bodyVars  == <<physics, positionY>>
worldVars == <<collisionMeshes, initialSpawn>>
moveVars  == <<currentMoveSpeed, isSprinting>>
dragVars  == <<isDragging, birdEyeRotation>>
savedVars == <<savedPlanetRotation, savedCharacterRotation, savedCharacterPosition>>
zoomVars  == <<birdEyeDistance, cameraFov>>
\* what the key and mouse-button handlers of the game and the gameplay part of
\* animate neither read nor write
sideVars  == <<zoomVars, performanceManager, solar>>

NoKeys == [w |-> FALSE, a |-> FALSE, s |-> FALSE, d |-> FALSE, space |-> FALSE, shift |-> FALSE]

\* rotateToSpawn() found no spawn cube / found one: the spawn rotation it
\* stores and the height on top of the cube
NoSpawn == [stored |-> FALSE, rotation |-> IdentityQuat, y |-> 0]
CubeSpawn == [stored |-> TRUE,
              rotation |-> SetFromAxisAngle(<<QScale, 0, 0>>, 1, 4),
              y |-> GroundLevel + 900]

\* Zoom.  birdEyeDistance is in units of 1/50 (zoomSpeed 0.02 per unit of
\* deltaY); camera.fov in units of 1/20 degree (fovSpeed 0.05).
BIRD_EYE_DISTANCE_DEFAULT == 1250   \* 25
BIRD_EYE_MIN_ZOOM == 400            \* 8
BIRD_EYE_MAX_ZOOM == 2500           \* 50
FOV_DEFAULT == 1500                 \* new THREE.PerspectiveCamera(75, ...)
FOV_MIN == 800                      \* 40
FOV_MAX == 2000                     \* 100

(***************************************************************************)
(* PerformanceManager.  FPS samples are whole numbers (the frame times     *)
(* used divide 600); averageFPS is compared through the sum of the         *)
(* history.  stabilizationTimer is in TU.  Tiers are 0 (Ultra) .. 5        *)
(* (Potato).                                                               *)
(***************************************************************************)
FPS_HISTORY_SIZE == 60              \* this.fpsHistorySize
MIN_SAMPLES == 30                   \* this.fpsHistory.length < 30
LAST_TIER == 5                      \* this.tiers.length - 1
FPS_LOW == 28                       \* averageFPS < 28
FPS_MEDIUM == 35                    \* averageFPS < 35 && currentTier < 3
MEDIUM_TIER_LIMIT == 3
FPS_HIGH == 55                      \* averageFPS > 55
DOWNGRADE_DELAY == 1200             \* 2.0 s
UPGRADE_DELAY == 3000               \* 5.0 s
TICKS_PER_SECOND == 600             \* TU in a second: currentFPS = 1 / frameDelta

RECURSIVE SumOf(_)
SumOf(seq) == IF seq = << >> THEN 0 ELSE Head(seq) + SumOf(Tail(seq))

\* this.fpsHistory.push(this.currentFPS), shift() beyond fpsHistorySize
PushSample(history, fps) ==
    LET pushed == Append(history, fps)
    IN  IF Len(pushed) > FPS_HISTORY_SIZE THEN Tail(pushed) ELSE pushed

\* the tier autoAdjustQuality wants, from averageFPS and the current tier
DesiredTier(pm) ==
    LET total == SumOf(pm.fpsHistory)
        n == Len(pm.fpsHistory)
    IN  IF total < FPS_LOW * n
        THEN Min(LAST_TIER, pm.currentTier + 1)
        ELSE IF total < FPS_MEDIUM * n /\ pm.currentTier < MEDIUM_TIER_LIMIT
             THEN Min(LAST_TIER, pm.currentTier + 1)
             ELSE IF total > FPS_HIGH * n /\ pm.currentTier > 0
                  THEN Max(0, pm.currentTier - 1)
                  ELSE pm.currentTier

\* mutant of AutoAdjustQuality: the tier is applied as soon as it is desired
AutoAdjustQualityAtOnce(pm, dt) ==
    IF Len(pm.fpsHistory) < MIN_SAMPLES
    THEN pm
    ELSE [pm EXCEPT !.targetTier = DesiredTier(pm), !.currentTier = DesiredTier(pm),
                    !.stabilizationTimer = 0]

\* autoAdjustQuality(deltaTime); applyTier sets currentTier
AutoAdjustQuality(pm, dt) ==
    IF Len(pm.fpsHistory) < MIN_SAMPLES
    THEN pm
    ELSE LET desiredTier == DesiredTier(pm)
         IN  IF desiredTier # pm.targetTier
             THEN [pm EXCEPT !.targetTier = desiredTier, !.stabilizationTimer = 0]
             ELSE IF desiredTier # pm.currentTier
                  THEN LET timer == pm.stabilizationTimer + dt
                           delay == IF desiredTier > pm.currentTier
                                    THEN DOWNGRADE_DELAY ELSE UPGRADE_DELAY
                       IN  IF timer >= delay
                           THEN [pm EXCEPT !.currentTier = desiredTier,
                                           !.stabilizationTimer = 0]
                           ELSE [pm EXCEPT !.stabilizationTimer = timer]
                  ELSE pm

\* update(deltaTime); frameDelta is the time since the last call by
\* performance.now()
PerformanceUpdate(pm, frameDelta, dt) ==
    LET sampled == IF frameDelta > 0
                   THEN [pm EXCEPT !.fpsHistory =
                                      PushSample(@, TICKS_PER_SECOND \div frameDelta)]
                   ELSE pm
    IN  IF sampled.isAuto THEN AutoAdjustQuality(sampled, dt) ELSE sampled

\* mutant of CycledQuality: after the last tier the cycle stays manual
CycledQualityPastLast(pm) ==
    IF pm.isAuto
    THEN [pm EXCEPT !.isAuto = FALSE]
    ELSE [pm EXCEPT !.currentTier = pm.currentTier + 1]

\* cycleQuality()
CycledQuality(pm) ==
    IF pm.isAuto
    THEN [pm EXCEPT !.isAuto = FALSE]
    ELSE IF pm.currentTier + 1 >= LAST_TIER + 1
         THEN [pm EXCEPT !.isAuto = TRUE, !.currentTier = 0]
         ELSE [pm EXCEPT !.currentTier = pm.currentTier + 1]

\* new PerformanceManager() with nothing saved in localStorage
NewPerformanceManager ==
    [fpsHistory |-> << >>, currentTier |-> 0, targetTier |-> 0, isAuto |-> TRUE,
     stabilizationTimer |-> 0]

\* the solar-system page after initInteractions
\* (previousMousePosition and cameraAngle along x, the angle in units of
\* 0.005 rad).  button and dragged are the browser's side: the mouse button
\* ("released" while the click that follows mouseup is still to be
\* dispatched) and whether the pointer has moved since mousedown.
SolarLoaded ==
    [mode |-> "overview", isDragging |-> FALSE, previousMouseX |-> 0, cameraAngle |-> 0,
     button |-> "up", dragged |-> FALSE]

InitWith(meshes, spawn, intro, y) ==
    /\ introActive = intro
    /\ keys = NoKeys
    /\ physics = [velY |-> 0, isGrounded |-> FALSE, jumpCharging |-> FALSE, jumpChargeTime |-> 0]
    /\ positionY = y
    /\ characterRotation = PI_HEADING
    /\ planetQuat = ResetRotation(spawn)
    /\ collisionMeshes = meshes
    /\ initialSpawn = spawn
    /\ currentMoveSpeed = 0
    /\ isSprinting = FALSE
    /\ currentCameraDistance = CAMERA_DISTANCE_IDLE
    /\ detachedCamera = FALSE
    /\ isDragging = FALSE
    /\ birdEyeRotation = IdentityQuat
    /\ savedPlanetRotation = IdentityQuat
    /\ savedCharacterRotation = 0
    /\ savedCharacterPosition = 0
    /\ physicsAccumulator = 0
    /\ deltaTime = 0
    /\ pc = "idle"
    /\ lastOp = "init"
    /\ preToggle = [quat |-> IdentityQuat, rotation |-> 0, y |-> 0, drags |-> 0]
    /\ birdEyeDistance = BIRD_EYE_DISTANCE_DEFAULT
    /\ cameraFov = FOV_DEFAULT
    /\ performanceManager = NewPerformanceManager
    /\ solar = SolarLoaded

(***************************************************************************)
(* Input handlers (setupControls)                                          *)
(***************************************************************************)
\* keydown Enter during the intro: hideIntroScreen()
HideIntroScreen ==
    /\ pc = "idle"
    /\ introActive
    /\ introActive' = FALSE
    /\ lastOp' = "hideIntroScreen"
    /\ UNCHANGED <<keys, bodyVars, characterRotation, planetQuat, worldVars, sideVars, moveVars,
                   currentCameraDistance, detachedCamera, dragVars, savedVars,
                   physicsAccumulator, deltaTime, pc, preToggle>>

\* keydown of w, a, s, d or a shift key
KeyDown(k) ==
    /\ pc = "idle"
    /\ ~keys[k]
    /\ k = "shift" \/ ~introActive
    /\ keys' = [keys EXCEPT ![k] = TRUE]
    /\ lastOp' = "keydown"
    /\ UNCHANGED <<introActive, bodyVars, characterRotation, planetQuat, worldVars, sideVars, moveVars,
                   currentCameraDistance, detachedCamera, dragVars, savedVars,
                   physicsAccumulator, deltaTime, pc, preToggle>>

\* keyup
KeyUp(k) ==
    /\ pc = "idle"
    /\ keys[k]
    /\ keys' = [keys EXCEPT ![k] = FALSE]
    /\ lastOp' = "keyup"
    /\ UNCHANGED <<introActive, bodyVars, characterRotation, planetQuat, worldVars, sideVars, moveVars,
                   currentCameraDistance, detachedCamera, dragVars, savedVars,
                   physicsAccumulator, deltaTime, pc, preToggle>>

\* mutant of JumpRequested: a request while charging restarts the charge
JumpRequestedRestarts(p, intro) ==
    IF ~intro /\ p.isGrounded
    THEN [p EXCEPT !.jumpCharging = TRUE, !.jumpChargeTime = 0]
    ELSE p

\* the physics state after a keydown of Space
JumpRequested(p, intro) ==
    IF ~intro /\ p.isGrounded /\ ~p.jumpCharging
    THEN [p EXCEPT !.jumpCharging = TRUE, !.jumpChargeTime = 0]
    ELSE p

\* keydown Space: start the jump charge-up
JumpRequest ==
    /\ pc = "idle"
    /\ physics' = JumpRequested(physics, introActive)
    /\ lastOp' = IF physics' # physics THEN "jumpRequest" ELSE lastOp
    /\ UNCHANGED <<inputVars, positionY, characterRotation, planetQuat, worldVars, sideVars, moveVars,
                   currentCameraDistance, detachedCamera, dragVars, savedVars,
                   physicsAccumulator, deltaTime, pc, preToggle>>

\* mutant of BirdEyeSnapshot: the position is not saved
BirdEyeSnapshotWithoutPosition(quat, rotation, y, oldY) ==
    [planet |-> quat, rotation |-> rotation, position |-> oldY]

\* a snapshot that records the spawn heading instead of the current one
BirdEyeSnapshotSpawnHeading(quat, rotation, y, oldY) ==
    [planet |-> quat, rotation |-> PI_HEADING, position |-> y]

\* what entering bird's eye view saves: copies of the planet rotation, the
\* heading and the character position
BirdEyeSnapshot(quat, rotation, y, oldY) ==
    [planet |-> quat, rotation |-> rotation, position |-> y]

\* mutant of ToggledPhysics: leaving bird's eye view puts the character at rest
ToggledPhysicsAtRest(p, detached) ==
    IF detached THEN [p EXCEPT !.velY = 0, !.jumpCharging = FALSE] ELSE p

\* the physics object after toggleBirdEyeView, entering (detached false) or
\* leaving: the function writes none of its fields
ToggledPhysics(p, detached) == p

\* keydown f: toggleBirdEyeView()
ToggleBirdEyeView ==
    /\ pc = "idle"
    /\ ~introActive
    /\ physics' = ToggledPhysics(physics, detachedCamera)
    /\ IF ~detachedCamera
       THEN /\ detachedCamera' = TRUE
            /\ LET saved == BirdEyeSnapshot(planetQuat, characterRotation, positionY,
                                            savedCharacterPosition)
               IN  /\ savedPlanetRotation' = saved.planet
                   /\ savedCharacterRotation' = saved.rotation
                   /\ savedCharacterPosition' = saved.position
            /\ birdEyeRotation' = planetQuat
            /\ preToggle' = [quat |-> planetQuat, rotation |-> characterRotation,
                             y |-> positionY, drags |-> 0]
            /\ lastOp' = "enterBirdEye"
            /\ UNCHANGED <<planetQuat, characterRotation, positionY, isDragging>>
       ELSE /\ detachedCamera' = FALSE
            /\ isDragging' = FALSE
            /\ planetQuat' = savedPlanetRotation
            /\ characterRotation' = savedCharacterRotation
            /\ positionY' = savedCharacterPosition
            /\ lastOp' = "exitBirdEye"
            /\ UNCHANGED <<savedVars, birdEyeRotation, preToggle>>
    /\ UNCHANGED <<inputVars, worldVars, sideVars, moveVars, currentCameraDistance,
                   physicsAccumulator, deltaTime, pc>>

\* keydown x: resetToSpawn()
ResetToSpawn ==
    /\ pc = "idle"
    /\ ~introActive
    /\ positionY' = ResetY(initialSpawn)
    /\ characterRotation' = PI_HEADING
    /\ physics' = [physics EXCEPT !.velY = 0, !.isGrounded = FALSE]
    /\ planetQuat' = ResetRotation(initialSpawn)
    /\ lastOp' = "resetToSpawn"
    /\ UNCHANGED <<inputVars, worldVars, sideVars, moveVars, currentCameraDistance, detachedCamera,
                   dragVars, savedVars, physicsAccumulator, deltaTime, pc, preToggle>>

\* mousedown; onMenu: the escape menu is open and the press is on it
\* mutant of DragStarts: the press starts a drag in either camera mode
DragStartsAnyMode(button, detached, intro, onMenu) ==
    button = 0 /\ ~intro /\ ~onMenu

\* e.button === 0 && detachedCamera && !introActive && !(isMenuOpen && clickedOnMenu)
DragStarts(button, detached, intro, onMenu) ==
    button = 0 /\ detached /\ ~intro /\ ~onMenu

MouseDown(button, onMenu) ==
    /\ pc = "idle"
    /\ DragStarts(button, detachedCamera, introActive, onMenu)
    /\ ~isDragging
    /\ isDragging' = TRUE
    /\ lastOp' = "mousedown"
    /\ UNCHANGED <<inputVars, bodyVars, characterRotation, planetQuat, worldVars, sideVars, moveVars,
                   currentCameraDistance, detachedCamera, birdEyeRotation, savedVars,
                   physicsAccumulator, deltaTime, pc, preToggle>>

\* mouseup
MouseUp(button) ==
    /\ pc = "idle"
    /\ button = 0 /\ detachedCamera
    /\ isDragging
    /\ isDragging' = FALSE
    /\ lastOp' = "mouseup"
    /\ UNCHANGED <<inputVars, bodyVars, characterRotation, planetQuat, worldVars, sideVars, moveVars,
                   currentCameraDistance, detachedCamera, birdEyeRotation, savedVars,
                   physicsAccumulator, deltaTime, pc, preToggle>>

\* the orbit rotation after a drag of (movementX, movementY) pixels
DraggedRotation(rot, movementX, movementY) ==
    LET deltaYaw   == SetFromAxisAngle(<<0, QScale, 0>>, movementX, DRAG_DEN)
        deltaPitch == SetFromAxisAngle(<<QScale, 0, 0>>, movementY, DRAG_DEN)
    IN  MultiplyQuaternions(deltaPitch, MultiplyQuaternions(deltaYaw, rot))

\* mousemove
MouseMove(movementX, movementY) ==
    /\ pc = "idle"
    /\ isDragging /\ detachedCamera /\ ~introActive
    /\ birdEyeRotation' = DraggedRotation(birdEyeRotation, movementX, movementY)
    /\ preToggle' = [preToggle EXCEPT !.drags = @ + 1]
    /\ lastOp' = "mousemove"
    /\ UNCHANGED <<inputVars, bodyVars, characterRotation, planetQuat, worldVars, sideVars, moveVars,
                   currentCameraDistance, detachedCamera, isDragging, savedVars,
                   physicsAccumulator, deltaTime, pc>>

\* mutant of WheelZoom: the zoom distance is not clamped
WheelZoomUnclamped(distance, deltaY) == distance + deltaY

\* birdEyeDistance += e.deltaY * zoomSpeed, clamped to the zoom bounds
WheelZoom(distance, deltaY) ==
    Max(BIRD_EYE_MIN_ZOOM, Min(BIRD_EYE_MAX_ZOOM, distance + deltaY))

\* camera.fov += e.deltaY * fovSpeed, clamped to 40..100
WheelFov(fov, deltaY) == Max(FOV_MIN, Min(FOV_MAX, fov + deltaY))

\* wheel
Wheel(deltaY) ==
    /\ pc = "idle"
    /\ IF ~introActive
       THEN IF detachedCamera
            THEN /\ birdEyeDistance' = WheelZoom(birdEyeDistance, deltaY)
                 /\ UNCHANGED cameraFov
            ELSE /\ cameraFov' = WheelFov(cameraFov, deltaY)
                 /\ UNCHANGED birdEyeDistance
       ELSE UNCHANGED zoomVars
    /\ lastOp' = "wheel"
    /\ UNCHANGED <<inputVars, bodyVars, characterRotation, planetQuat, worldVars, moveVars,
                   currentCameraDistance, detachedCamera, dragVars, savedVars,
                   physicsAccumulator, deltaTime, pc, preToggle, performanceManager, solar>>

(***************************************************************************)
(* The frame (animate).  Gameplay runs only when the intro is over.        *)
(***************************************************************************)
\* mutant of ChargedPhysics: the launch waits for more than the delay
ChargedPhysicsLate(p, dt) ==
    IF p.jumpCharging
    THEN LET t == p.jumpChargeTime + dt
         IN  IF t > JUMP_CHARGE_DELAY
             THEN [p EXCEPT !.jumpChargeTime = t, !.velY = JUMP_FORCE,
                            !.isGrounded = FALSE, !.jumpCharging = FALSE]
             ELSE [p EXCEPT !.jumpChargeTime = t]
    ELSE p

\* mutant of ChargedPhysics: a charge is dropped once the ground is lost
ChargedPhysicsGroundedOnly(p, dt) ==
    IF p.jumpCharging
    THEN LET t == p.jumpChargeTime + dt
         IN  IF ~p.isGrounded
             THEN [p EXCEPT !.jumpCharging = FALSE]
             ELSE IF t >= JUMP_CHARGE_DELAY
                  THEN [p EXCEPT !.jumpChargeTime = t, !.velY = JUMP_FORCE,
                                 !.isGrounded = FALSE, !.jumpCharging = FALSE]
                  ELSE [p EXCEPT !.jumpChargeTime = t]
    ELSE p

\* mutant of ChargedPhysics: the launch leaves isGrounded as it is
ChargedPhysicsStaysGrounded(p, dt) ==
    IF p.jumpCharging
    THEN LET t == p.jumpChargeTime + dt
         IN  IF t >= JUMP_CHARGE_DELAY
             THEN [p EXCEPT !.jumpChargeTime = t, !.velY = JUMP_FORCE,
                            !.jumpCharging = FALSE]
             ELSE [p EXCEPT !.jumpChargeTime = t]
    ELSE p

\* the jump charge-up of animate: physics after deltaTime more charge
ChargedPhysics(p, dt) ==
    IF p.jumpCharging
    THEN LET t == p.jumpChargeTime + dt
         IN  IF t >= JUMP_CHARGE_DELAY
             THEN [p EXCEPT !.jumpChargeTime = t, !.velY = JUMP_FORCE,
                            !.isGrounded = FALSE, !.jumpCharging = FALSE]
             ELSE [p EXCEPT !.jumpChargeTime = t]
    ELSE p

\* mutant of FrameDelta: the raw delta is used as it comes
FrameDeltaUnclamped(rawDelta) == rawDelta

\* deltaTime = Math.min(clock.getDelta(), 0.1)
FrameDelta(rawDelta) == Min(rawDelta, MAX_DELTA)

\* the gameplay part of animate up to the physics loop; rawDelta is
\* clock.getDelta()
AnimateGameplay(rawDelta) ==
    /\ pc = "idle"
    /\ ~introActive
    /\ LET dt == FrameDelta(rawDelta)
       IN  /\ deltaTime' = dt
           /\ physics' = ChargedPhysics(physics, dt)
           /\ physicsAccumulator' = physicsAccumulator + dt
           /\ lastOp' = IF physics.jumpCharging /\ ~physics'.jumpCharging
                        THEN "jumpLaunch" ELSE "animate"
    /\ pc' = "physics"
    /\ UNCHANGED <<inputVars, positionY, characterRotation, planetQuat, worldVars, moveVars,
                   currentCameraDistance, detachedCamera, dragVars, savedVars, preToggle>>

\* animate up to the physics loop with the performance manager left aside:
\* its update is followed in QualitySpec
AnimateBegin(rawDelta) ==
    /\ AnimateGameplay(rawDelta)
    /\ UNCHANGED sideVars

\* animate up to the physics loop: performanceManager.update(deltaTime), then
\* the gameplay part
AnimateAll(rawDelta) ==
    /\ performanceManager' =
          PerformanceUpdate(performanceManager, rawDelta, FrameDelta(rawDelta))
    /\ AnimateGameplay(rawDelta)
    /\ UNCHANGED <<zoomVars, solar>>

\* keydown q: performanceManager.isAuto = !performanceManager.isAuto
ToggleAutoQuality ==
    /\ pc = "idle"
    /\ performanceManager' = [performanceManager EXCEPT !.isAuto = ~@]
    /\ lastOp' = "toggleAuto"
    /\ UNCHANGED <<inputVars, bodyVars, characterRotation, planetQuat, worldVars, moveVars,
                   currentCameraDistance, detachedCamera, dragVars, savedVars,
                   physicsAccumulator, deltaTime, pc, preToggle, zoomVars, solar>>

\* click on the quality button of the escape menu: cycleQuality()
CycleQuality ==
    /\ pc = "idle"
    /\ ~introActive
    /\ performanceManager' = CycledQuality(performanceManager)
    /\ lastOp' = "cycleQuality"
    /\ UNCHANGED <<inputVars, bodyVars, characterRotation, planetQuat, worldVars, moveVars,
                   currentCameraDistance, detachedCamera, dragVars, savedVars,
                   physicsAccumulator, deltaTime, pc, preToggle, zoomVars, solar>>

\* mutant of StepDue: the loop stops one step early
StepDueLeavesOne(acc) == acc >= 2 * FIXED_TIMESTEP

\* mutant of StepDue: a whole step left in the accumulator is not run
StepDueStrict(acc) == acc > FIXED_TIMESTEP

\* the loop condition: while (physicsAccumulator >= FIXED_TIMESTEP)
StepDue(acc) == acc >= FIXED_TIMESTEP

\* one turn of the loop: updatePhysics(FIXED_TIMESTEP, introActive)
PhysicsStep ==
    /\ pc = "physics"
    /\ StepDue(physicsAccumulator)
    /\ LET res == UpdatePhysics(collisionMeshes, planetQuat, physics, positionY, FIXED_TIMESTEP)
       IN  /\ physics' = res.p
           /\ positionY' = res.y
    /\ physicsAccumulator' = physicsAccumulator - FIXED_TIMESTEP
    /\ lastOp' = "updatePhysics"
    /\ UNCHANGED <<inputVars, characterRotation, planetQuat, worldVars, sideVars, moveVars,
                   currentCameraDistance, detachedCamera, dragVars, savedVars,
                   deltaTime, pc, preToggle>>

\* the loop is over: handleMovement(deltaTime)
MovementStep ==
    /\ pc = "physics"
    /\ ~StepDue(physicsAccumulator)
    /\ isSprinting' = keys.shift
    /\ characterRotation' = TurnedRotation(keys, characterRotation, deltaTime)
    /\ currentMoveSpeed' = NextMoveSpeed(keys, currentMoveSpeed, deltaTime)
    /\ planetQuat' = MovedPlanet(collisionMeshes, planetQuat, keys, characterRotation',
                                 currentMoveSpeed', deltaTime, positionY, detachedCamera)
    /\ pc' = "camera"
    /\ lastOp' = "handleMovement"
    /\ UNCHANGED <<inputVars, bodyVars, worldVars, sideVars, currentCameraDistance, detachedCamera,
                   dragVars, savedVars, physicsAccumulator, deltaTime, preToggle>>

\* updateCamera(time), then the frame ends
CameraStep ==
    /\ pc = "camera"
    /\ IF detachedCamera
       THEN /\ planetQuat' = birdEyeRotation
            /\ UNCHANGED currentCameraDistance
       ELSE /\ currentCameraDistance' =
                   LerpDistance(currentCameraDistance, TargetCameraDistance(keys, isSprinting))
            /\ UNCHANGED planetQuat
    /\ pc' = "idle"
    /\ deltaTime' = 0
    /\ lastOp' = "updateCamera"
    /\ UNCHANGED <<inputVars, bodyVars, characterRotation, worldVars, sideVars, moveVars,
                   detachedCamera, dragVars, savedVars, physicsAccumulator, preToggle>>

Frame(deltas) ==
    \/ \E rawDelta \in deltas : AnimateBegin(rawDelta)
    \/ PhysicsStep
    \/ MovementStep
    \/ CameraStep

(***************************************************************************)
(* FallSpec: a character dropped over a flat surface, frames only.  The    *)
(* browser keeps calling animate (requestAnimationFrame), hence the        *)
(* fairness on the frame.                                                  *)
(***************************************************************************)
FallHeights == {1, 540, 1800, 18000, 180000}    \* start heights above the ground
FallDeltas == {10, 25}

FallInit ==
    \E h \in FallHeights : InitWith("flat", NoSpawn, FALSE, GroundLevel + h)

FallNext == Frame(FallDeltas)

FallSpec == FallInit /\ [][FallNext]_vars /\ WF_vars(FallNext)

(***************************************************************************)
(* MoveSpec: locomotion in front of obstacles.  The world is walled (the   *)
(* forward probe hits in every direction), the character starts at rest on *)
(* spawn; the player presses and releases w, s and shift in any order.     *)
(***************************************************************************)
MoveKeys == {"w", "s", "shift"}
MoveDeltas == {30, 60, 100}

MoveInit == InitWith("walled", NoSpawn, TRUE, SPAWN_HEIGHT)

MoveNext ==
    \/ HideIntroScreen
    \/ \E k \in MoveKeys : KeyDown(k)
    \/ \E k \in MoveKeys : KeyUp(k)
    \/ Frame(MoveDeltas)

MoveSpec == MoveInit /\ [][MoveNext]_vars

(***************************************************************************)
(* C4  Fall and land (FallSpec).  Starting airborne at rest above a flat   *)
(* surface, the fixed ticks eventually ground the character; whenever it   *)
(* is grounded its velocity is 0 and its height is groundY + 0.03; and the *)
(* height is never below groundY.                                          *)
(***************************************************************************)
Landed ==
    physics.isGrounded /\ physics.velY = 0 /\ positionY = GroundLevel + GROUND_OFFSET

C4_FallAndLand ==
    /\ [](positionY >= GroundLevel)
    /\ [](physics.isGrounded => Landed)
    /\ <>Landed

\* landed by a physics tick, the frame still running
C4_Witness == Landed /\ lastOp = "updatePhysics" /\ pc = "physics"

(***************************************************************************)
(* Steps of the frame, as seen from the state they start in.               *)
(***************************************************************************)
AtPhysicsTick == pc = "physics" /\ physicsAccumulator >= FIXED_TIMESTEP
AtMovement    == pc = "physics" /\ physicsAccumulator < FIXED_TIMESTEP
AtCamera      == pc = "camera"

\* effectiveMax of a tick in which shift is / is not held
EffectiveMax(shiftHeld) ==
    IF shiftHeld THEN MAX_MOVE_SPEED * SPRINT_MULTIPLIER ELSE MAX_MOVE_SPEED

C6_BlockedNoOp ==
    [][(AtMovement /\ ForwardIntersect(collisionMeshes, planetQuat, characterRotation,
                                       IF keys.w THEN -1 ELSE 1, positionY).hit)
          => planetQuat' = planetQuat]_vars

\* a tick walking backward at sprint speed into an obstacle farther than the
\* minimum clearance, whose rotation would have moved the planet
C6_Witness ==
    /\ lastOp = "handleMovement"
    /\ keys.s /\ ~keys.w /\ keys.shift /\ ~detachedCamera
    /\ currentMoveSpeed > MAX_MOVE_SPEED
    /\ ForwardIntersect(collisionMeshes, planetQuat, characterRotation, 1, positionY).distance
          >= MIN_CLEARANCE
    /\ MultiplyQuaternions(WalkRotation(characterRotation, 1, currentMoveSpeed, deltaTime),
                           planetQuat) # planetQuat

(***************************************************************************)
(* C7  Deceleration monotonicity (MoveSpec): in a handleMovement tick with *)
(* neither w nor s held, a positive currentMoveSpeed strictly decreases    *)
(* and never goes below 0, and a speed of 0 stays 0, shift held or not.    *)
(***************************************************************************)
C7_Deceleration ==
    [][(AtMovement /\ ~keys.w /\ ~keys.s)
          => /\ currentMoveSpeed' >= 0
             /\ currentMoveSpeed > 0 => currentMoveSpeed' < currentMoveSpeed
             /\ currentMoveSpeed = 0 => currentMoveSpeed' = 0]_vars

\* a decelerating tick with shift held that left a positive speed
C7_Witness ==
    /\ lastOp = "handleMovement"
    /\ ~keys.w /\ ~keys.s /\ keys.shift
    /\ 0 < currentMoveSpeed /\ currentMoveSpeed < MAX_MOVE_SPEED

(***************************************************************************)
(* C8  Sprint distance target (MoveSpec): in a follow-mode camera update   *)
(* the target is the sprint distance while moving with shift held, the     *)
(* walk distance while moving without it, the idle distance otherwise;     *)
(* currentCameraDistance moves by one fortieth of the gap to that target   *)
(* (to the nearest unit), stays on its side of the target and does not     *)
(* reach it in the frame.                                                  *)
(***************************************************************************)
ClaimedTarget ==
    IF keys.w \/ keys.s
    THEN IF keys.shift THEN CAMERA_DISTANCE_SPRINTING ELSE CAMERA_DISTANCE_WALKING
    ELSE CAMERA_DISTANCE_IDLE

C8_SprintDistance ==
    [][(AtCamera /\ ~detachedCamera)
          => LET gap  == ClaimedTarget - currentCameraDistance
                 gap2 == ClaimedTarget - currentCameraDistance'
                 move == currentCameraDistance' - currentCameraDistance
             IN  /\ Abs(LERP_DIVISOR * move - gap) <= LERP_DIVISOR \div 2
                 /\ gap > 0 => (0 < gap2 /\ gap2 <= gap)
                 /\ gap < 0 => (gap <= gap2 /\ gap2 < 0)
                 /\ gap = 0 => gap2 = 0]_vars

\* sprint released while moving: the camera, beyond the walk distance, has
\* just moved back toward it
C8_Witness ==
    /\ lastOp = "updateCamera"
    /\ keys.w /\ ~keys.shift /\ ~detachedCamera
    /\ currentCameraDistance > CAMERA_DISTANCE_WALKING + LERP_DIVISOR
    /\ currentCameraDistance < CAMERA_DISTANCE_SPRINTING - LERP_DIVISOR

(***************************************************************************)
(* BirdSpec: follow mode and bird's eye view over a flat surface.  The     *)
(* player toggles the view, drags, turns with a and resets to spawn;       *)
(* frames run in both modes.  The world has a spawn cube or none.  The     *)
(* player stops turning at MaxHeading and drags at most MaxDrags times per *)
(* stay in bird's eye view.                                                *)
(***************************************************************************)
MaxHeading == 60
MaxDrags == 1
BirdDeltas == {20, 60}
BirdDragPixels == {0, 80}

BirdInit ==
    \E spawn \in {NoSpawn, CubeSpawn} : InitWith("flat", spawn, TRUE, ResetY(spawn))

BirdNext ==
    \/ HideIntroScreen
    \/ KeyDown("a")
    \/ KeyUp("a")
    \/ ToggleBirdEyeView
    \/ ResetToSpawn
    \/ \E onMenu \in BOOLEAN : MouseDown(0, onMenu)
    \/ MouseUp(0)
    \/ /\ preToggle.drags < MaxDrags
       /\ \E movementX, movementY \in BirdDragPixels : MouseMove(movementX, movementY)
    \/ /\ keys.a => characterRotation < MaxHeading
       /\ \E rawDelta \in BirdDeltas : AnimateBegin(rawDelta)
    \/ PhysicsStep
    \/ MovementStep
    \/ CameraStep

BirdSpec == BirdInit /\ [][BirdNext]_vars

(***************************************************************************)
(* TripSpec: walking, turning and resetting across stays in bird's eye     *)
(* view, over a flat surface, frames of 0.1 s.  The player stops turning   *)
(* at MaxHeading and walks no farther than MaxTravel from spawn.           *)
(***************************************************************************)
MaxTravel == 4
TripKeys == {"a", "w"}
TripDeltas == {60}

TripInit ==
    \E spawn \in {NoSpawn, CubeSpawn} : InitWith("flat", spawn, TRUE, ResetY(spawn))

TripNext ==
    \/ HideIntroScreen
    \/ \E k \in TripKeys : KeyDown(k)
    \/ \E k \in TripKeys : KeyUp(k)
    \/ ToggleBirdEyeView
    \/ ResetToSpawn
    \/ /\ keys.a => characterRotation < MaxHeading
       /\ keys.w => Abs(planetQuat[1] - ResetRotation(initialSpawn)[1]) < MaxTravel
       /\ \E rawDelta \in TripDeltas : AnimateBegin(rawDelta)
    \/ PhysicsStep
    \/ MovementStep
    \/ CameraStep

TripSpec == TripInit /\ [][TripNext]_vars

(***************************************************************************)
(* JumpSpec: jumping over a flat surface.  The player presses Space at any *)
(* time, resets to spawn, and frames of several lengths run.               *)
(***************************************************************************)
JumpDeltas == {10, 40, 60, 100}

JumpInit ==
    \E spawn \in {NoSpawn, CubeSpawn} : InitWith("flat", spawn, TRUE, ResetY(spawn))

JumpNext ==
    \/ HideIntroScreen
    \/ JumpRequest
    \/ ResetToSpawn
    \/ Frame(JumpDeltas)

JumpSpec == JumpInit /\ [][JumpNext]_vars

(***************************************************************************)
(* C2  Ground-snap idempotence (BirdSpec): a physics tick that starts with *)
(* the character grounded, its vertical velocity 0 and no jump charging    *)
(* leaves the height, the velocity and isGrounded unchanged.               *)
(***************************************************************************)
C2_SnapIdempotent ==
    [][(AtPhysicsTick /\ physics.isGrounded /\ physics.velY = 0 /\ ~physics.jumpCharging)
          => /\ positionY' = positionY
             /\ physics'.velY = physics.velY
             /\ physics'.isGrounded = physics.isGrounded]_vars

(***************************************************************************)
(* C3  Detached round-trip (TripSpec): leaving bird's eye view after a     *)
(* stay without drag input puts planetGroup.quaternion, the heading and    *)
(* the character position back to their values at the moment of entering,  *)
(* whatever the frames, turns and resets in between did to them.           *)
(***************************************************************************)
C3_RoundTrip ==
    [][(detachedCamera /\ ~detachedCamera' /\ preToggle.drags = 0)
          => /\ planetQuat' = preToggle.quat
             /\ characterRotation' = preToggle.rotation
             /\ positionY' = preToggle.y]_vars

\* back in follow mode after a stay without drag, entered on the ground away
\* from spawn with the character turned, in which a reset to spawn had moved
\* all three (the character is still not grounded from it): the height, the
\* planet and the heading are what they were on entering
C3_Witness ==
    /\ lastOp = "exitBirdEye"
    /\ preToggle.drags = 0
    /\ ~physics.isGrounded
    /\ positionY = preToggle.y /\ positionY = GroundLevel + GROUND_OFFSET
    /\ planetQuat = preToggle.quat /\ planetQuat # ResetRotation(initialSpawn)
    /\ characterRotation = preToggle.rotation /\ characterRotation # PI_HEADING

(***************************************************************************)
(* C10  Reset to spawn (BirdSpec): right after resetToSpawn, from any      *)
(* state, planetGroup.quaternion is the stored spawn rotation (identity if *)
(* none is stored), the heading is pi, the height is the stored spawn      *)
(* height (SPAWN_HEIGHT if none), the vertical velocity is 0 and           *)
(* isGrounded is false.                                                    *)
(***************************************************************************)
C10_ResetToSpawn ==
    lastOp = "resetToSpawn" =>
        /\ planetQuat = (IF initialSpawn.stored THEN initialSpawn.rotation ELSE IdentityQuat)
        /\ characterRotation = PI_HEADING
        /\ positionY = (IF initialSpawn.stored THEN initialSpawn.y ELSE SPAWN_HEIGHT)
        /\ physics.velY = 0
        /\ ~physics.isGrounded

\* a reset in a world with a stored spawn, pressed in bird's eye view after
\* a drag, with the turn key still held
C10_Witness ==
    /\ lastOp = "resetToSpawn"
    /\ initialSpawn.stored
    /\ detachedCamera /\ birdEyeRotation # planetQuat
    /\ keys.a
    /\ planetQuat # IdentityQuat /\ positionY # SPAWN_HEIGHT

(***************************************************************************)
(* C5  Jump charge, as claimed (JumpSpec): the launch comes after exactly  *)
(* the charge delay of accumulated time; at the launch the vertical        *)
(* velocity is the jump impulse and isGrounded is false.  Violated: frame  *)
(* times that do not add up to the delay.                                  *)
(***************************************************************************)
C5_JumpCharge_AsClaimed ==
    lastOp = "jumpLaunch" =>
        /\ physics.jumpChargeTime = JUMP_CHARGE_DELAY
        /\ physics.velY = JUMP_FORCE
        /\ ~physics.isGrounded

(***************************************************************************)
(* C5  Jump charge, amended (JumpSpec): a jump request is taken only when  *)
(* grounded and sets jumpCharging with a charge time of 0; while charging  *)
(* the charge time is below the delay and the vertical velocity is never   *)
(* above 0; each frame adds its clamped deltaTime, and the first frame in  *)
(* which the sum is at least the delay (it may be more) sets the vertical  *)
(* velocity to the jump impulse and clears isGrounded and jumpCharging; a  *)
(* frame in which the sum stays below the delay changes only the charge    *)
(* time.                                                                   *)
(***************************************************************************)
C5_JumpCharge ==
    /\ [](physics.jumpCharging =>
             physics.jumpChargeTime < JUMP_CHARGE_DELAY /\ physics.velY <= 0)
    /\ [][lastOp' = "jumpRequest" =>
             /\ physics.isGrounded
             /\ physics' = [physics EXCEPT !.jumpCharging = TRUE, !.jumpChargeTime = 0]]_vars
    /\ [][(pc = "idle" /\ pc' = "physics" /\ physics.jumpCharging) =>
             LET t == physics.jumpChargeTime + deltaTime'
             IN  IF t >= JUMP_CHARGE_DELAY
                 THEN /\ physics'.velY = JUMP_FORCE
                      /\ ~physics'.isGrounded
                      /\ ~physics'.jumpCharging
                 ELSE physics' = [physics EXCEPT !.jumpChargeTime = t]]_vars

\* a launch from the ground in a frame that took the charge time past the delay
C5_Witness ==
    /\ lastOp = "jumpLaunch"
    /\ physics.jumpChargeTime > JUMP_CHARGE_DELAY
    /\ physics.velY = JUMP_FORCE
    /\ ~physics.isGrounded /\ ~physics.jumpCharging
    /\ positionY = GroundLevel + GROUND_OFFSET

(***************************************************************************)
(* QuatSpec: long walks and drags over a flat surface with nothing in the  *)
(* way, frames of 0.1 s.  The player walks or sprints forward until the    *)
(* planet has turned by MaxWalk, and drags at most MaxQuatDrags times per  *)
(* stay in bird's eye view.                                                *)
(***************************************************************************)
MaxWalk == 64
MaxQuatDrags == 3
QuatKeys == {"w"}
QuatDeltas == {60}
QuatDragPixels == {80}

QuatInit == InitWith("flat", NoSpawn, TRUE, SPAWN_HEIGHT)

QuatNext ==
    \/ HideIntroScreen
    \/ \E k \in QuatKeys : KeyDown(k)
    \/ \E k \in QuatKeys : KeyUp(k)
    \/ ToggleBirdEyeView
    \/ MouseDown(0, FALSE)
    \/ MouseUp(0)
    \/ /\ preToggle.drags < MaxQuatDrags
       /\ \E movementX, movementY \in QuatDragPixels : MouseMove(movementX, movementY)
    \/ /\ keys.w => Abs(planetQuat[1]) < MaxWalk
       /\ \E rawDelta \in QuatDeltas : AnimateBegin(rawDelta)
    \/ PhysicsStep
    \/ MovementStep
    \/ CameraStep

QuatSpec == QuatInit /\ [][QuatNext]_vars

(***************************************************************************)
(* C9  Quaternion unit invariant (QuatSpec): planetGroup.quaternion has    *)
(* unit length after every rotation step, walking or dragging.  Unit       *)
(* length is taken up to NormTol, the most that rounding the four          *)
(* components of a normalised quaternion can move its squared norm.        *)
(***************************************************************************)
NormTol == 2 * QScale + 1

C11_JumpGuard ==
    /\ [](\A intro, grounded, charging \in BOOLEAN :
             LET p == [physics EXCEPT !.isGrounded = grounded, !.jumpCharging = charging]
             IN  JumpRequested(p, intro) =
                     IF grounded /\ ~charging /\ ~intro
                     THEN [p EXCEPT !.jumpCharging = TRUE, !.jumpChargeTime = 0]
                     ELSE p)
    /\ [][lastOp' = "jumpRequest" =>
             /\ physics.isGrounded /\ ~physics.jumpCharging /\ ~introActive
             /\ physics' = JumpRequested(physics, introActive)]_vars
    /\ [][(pc = "idle" /\ pc' = "idle" /\ physics.jumpCharging) =>
             /\ physics'.jumpCharging
             /\ physics'.jumpChargeTime = physics.jumpChargeTime]_vars

\* a request taken on the ground after an earlier jump: the charge time of
\* that jump is back to 0
C11_Witness ==
    /\ lastOp = "jumpRequest"
    /\ physics.isGrounded /\ physics.jumpCharging
    /\ physics.jumpChargeTime = 0
    /\ positionY = GroundLevel + GROUND_OFFSET
    /\ physicsAccumulator = 0 /\ ~introActive

(***************************************************************************)
(* TickSpec: frames of any length over a flat surface, from a fraction of  *)
(* a physics step to a stall of several seconds, with jumps in between.    *)
(***************************************************************************)
TickDeltas == {4, 10, 25, 60, 100, 3000}

TickInit == InitWith("flat", NoSpawn, TRUE, SPAWN_HEIGHT)

TickNext ==
    \/ HideIntroScreen
    \/ JumpRequest
    \/ Frame(TickDeltas)

TickSpec == TickInit /\ [][TickNext]_vars

FrameStart == {"animate", "jumpLaunch"}

(***************************************************************************)
(* C12  Tick order, as claimed (TickSpec): in each gameplay frame          *)
(* handleMovement runs first, then the updatePhysics steps, then           *)
(* updateCamera.  Violated by the first physics step of any frame.         *)
(***************************************************************************)
C12_TickOrder_AsClaimed ==
    /\ [][lastOp' = "handleMovement" => lastOp \in FrameStart]_vars
    /\ [][lastOp' = "updatePhysics" => lastOp \in {"handleMovement", "updatePhysics"}]_vars
    /\ [][lastOp' = "updateCamera" => lastOp \in {"handleMovement", "updatePhysics"}]_vars

(***************************************************************************)
(* C12  Tick order, amended (TickSpec): in each gameplay frame the jump    *)
(* charge is advanced first, then the updatePhysics steps run until the    *)
(* accumulator holds less than one step, then handleMovement runs, then    *)
(* updateCamera, and only then the next frame or a handler.                *)
(***************************************************************************)
C12_TickOrder ==
    /\ [][lastOp' \in FrameStart /\ pc' = "physics"
             => pc = "idle" /\ lastOp \notin {"animate", "jumpLaunch", "updatePhysics", "handleMovement"}]_vars
    /\ [][lastOp' = "updatePhysics" => lastOp \in FrameStart \cup {"updatePhysics"}]_vars
    /\ [][lastOp' = "handleMovement"
             => /\ lastOp \in FrameStart \cup {"updatePhysics"}
                /\ physicsAccumulator < FIXED_TIMESTEP]_vars
    /\ [][lastOp' = "updateCamera" => lastOp = "handleMovement"]_vars

\* handleMovement has just run after the physics steps of a frame in which
\* the character was falling
C12_Witness ==
    /\ lastOp = "handleMovement"
    /\ pc = "camera"
    /\ deltaTime = MAX_DELTA
    /\ physics.velY < 0 /\ ~physics.isGrounded

(***************************************************************************)
(* C13  Fixed-step accumulator (TickSpec): a frame adds its delta to       *)
(* physicsAccumulator; every physics step is updatePhysics(FIXED_TIMESTEP) *)
(* and takes FIXED_TIMESTEP off the accumulator; a step runs whenever a    *)
(* whole step is left, so the frame runs floor(accumulator/FIXED_TIMESTEP) *)
(* steps and carries the remainder: outside the loop                       *)
(* 0 <= physicsAccumulator < FIXED_TIMESTEP.  The accumulator is the frame *)
(* time consumed minus the physics time simulated, which therefore differ  *)
(* by less than one step after every frame.                                *)
(***************************************************************************)
C13_Accumulator ==
    /\ [](physicsAccumulator >= 0)
    /\ [](pc # "physics" => physicsAccumulator < FIXED_TIMESTEP)
    /\ [][lastOp' \in FrameStart /\ pc' = "physics"
             => physicsAccumulator' = physicsAccumulator + deltaTime']_vars
    /\ [][lastOp' = "updatePhysics"
             => /\ physicsAccumulator >= FIXED_TIMESTEP
                /\ physicsAccumulator' = physicsAccumulator - FIXED_TIMESTEP
                /\ <<positionY', physics'>> =
                      LET res == UpdatePhysics(collisionMeshes, planetQuat, physics,
                                               positionY, FIXED_TIMESTEP)
                      IN  <<res.y, res.p>>]_vars
    /\ [][(pc = "physics" /\ lastOp' # "updatePhysics")
             => /\ physicsAccumulator < FIXED_TIMESTEP
                /\ physicsAccumulator' = physicsAccumulator]_vars

\* a frame is over that carried 9/10 of a step into the next one
C13_Witness ==
    /\ lastOp = "updateCamera"
    /\ pc = "idle"
    /\ physicsAccumulator = FIXED_TIMESTEP - 1

(***************************************************************************)
(* ClampSpec: short frames, long frames and stalls over a flat surface,    *)
(* with the turn key and jumps.  No raw delta equals the clamp value, so a *)
(* frame delta of 0.1 s always comes from a longer raw delta.  The player  *)
(* stops turning at MaxHeading.                                            *)
(***************************************************************************)
ClampDeltas == {10, 100, 3000}

ClampInit == InitWith("flat", NoSpawn, TRUE, SPAWN_HEIGHT)

ClampNext ==
    \/ HideIntroScreen
    \/ KeyDown("a")
    \/ KeyUp("a")
    \/ JumpRequest
    \/ /\ keys.a => characterRotation < MaxHeading
       /\ \E rawDelta \in ClampDeltas : AnimateBegin(rawDelta)
    \/ PhysicsStep
    \/ MovementStep
    \/ CameraStep

ClampSpec == ClampInit /\ [][ClampNext]_vars

(***************************************************************************)
(* C14  Frame delta clamp (ClampSpec): the delta of a frame is             *)
(* min(raw delta, 0.1 s) for the raw delta of that frame; the jump-charge  *)
(* timer and the physics accumulator advance by it and handleMovement      *)
(* turns the character by TURN_SPEED times it; so the accumulator never    *)
(* holds 7 steps and at most 6 physics steps run in a frame.               *)
(***************************************************************************)
C14_DeltaClamp ==
    /\ [](deltaTime <= MAX_DELTA)
    /\ [](physicsAccumulator < 7 * FIXED_TIMESTEP)
    /\ [][lastOp' \in FrameStart /\ pc' = "physics"
             => /\ \E rawDelta \in ClampDeltas :
                      deltaTime' = IF rawDelta < MAX_DELTA THEN rawDelta ELSE MAX_DELTA
                /\ physicsAccumulator' = physicsAccumulator + deltaTime'
                /\ physics.jumpCharging
                      => physics'.jumpChargeTime = physics.jumpChargeTime + deltaTime']_vars
    /\ [][lastOp' = "handleMovement"
             => /\ deltaTime' = deltaTime
                /\ characterRotation' =
                      IF keys.a
                      THEN characterRotation + TURN_SPEED * deltaTime
                      ELSE characterRotation]_vars

\* handleMovement of the second of two frames after stalls: the jump charge
\* has advanced by 0.1 s in each and the character has turned by 0.1 s
C14_Witness ==
    /\ lastOp = "handleMovement"
    /\ deltaTime = MAX_DELTA
    /\ physicsAccumulator < FIXED_TIMESTEP
    /\ physics.jumpCharging /\ physics.jumpChargeTime = 2 * MAX_DELTA
    /\ keys.a /\ characterRotation = TURN_SPEED * MAX_DELTA

(***************************************************************************)
(* C15  Detached mode is transactional (BirdSpec): whatever happened       *)
(* between entering and leaving bird's eye view (drags, turn keys, resets  *)
(* to spawn, frames with their physics, movement and camera steps), on     *)
(* leaving it planetGroup.quaternion, the heading and the character        *)
(* position are the values they had on entering.                           *)
(***************************************************************************)
C15_Transactional ==
    /\ [][(detachedCamera /\ ~detachedCamera')
            => /\ planetQuat' = preToggle.quat
               /\ characterRotation' = preToggle.rotation
               /\ positionY' = preToggle.y]_vars
    /\ [](detachedCamera
            => /\ savedPlanetRotation = preToggle.quat
               /\ savedCharacterRotation = preToggle.rotation
               /\ savedCharacterPosition = preToggle.y)

\* back in follow mode after a stay with a drag that turned the orbit away
\* from the planet rotation saved on entering, and with a reset to spawn that
\* had moved the character (it is still not grounded from it): the planet, the
\* heading and the height are what they were on entering, on the ground with
\* the character turned
C15_Witness ==
    /\ lastOp = "exitBirdEye"
    /\ preToggle.drags > 0
    /\ birdEyeRotation # preToggle.quat
    /\ planetQuat = preToggle.quat
    /\ ~physics.isGrounded
    /\ positionY = preToggle.y /\ positionY = GroundLevel + GROUND_OFFSET
    /\ characterRotation = preToggle.rotation /\ characterRotation # PI_HEADING

(***************************************************************************)
(* DropSpec: vertical physics alone.  The character is dropped from        *)
(* several heights, over a flat surface or in a world with no collision    *)
(* mesh under it, and may jump when it stands; no key is held.  A fall     *)
(* that nothing stops is followed up to MaxFallSpeed.                      *)
(***************************************************************************)
MaxFallSpeed == 700
DropHeights == {540, 1800, 18000, 180000}
DropWorlds == {"flat", "none"}
DropDeltas == {10, 60}

DropInit ==
    \E meshes \in DropWorlds, h \in DropHeights :
        InitWith(meshes, NoSpawn, FALSE, GroundLevel + h)

DropNext ==
    \/ JumpRequest
    \/ /\ physics.velY > -MaxFallSpeed
       /\ \E rawDelta \in DropDeltas : AnimateBegin(rawDelta)
    \/ PhysicsStep
    \/ MovementStep
    \/ CameraStep

DropSpec == DropInit /\ [][DropNext]_vars

(***************************************************************************)
(* C16  Vertical step resolution (DropSpec): one updatePhysics tick from   *)
(* height h and velocity v computes v' = v - gravity*dt and d = v'*dt.  If *)
(* d >= 0 the height becomes h + d and isGrounded false.  If d < 0 and the *)
(* downward probe of range |d| + 1.0 hits at groundY, the tick snaps       *)
(* (height groundY + 0.03, velocity 0, isGrounded true) when               *)
(* h - groundY <= 0.05 + 0.02*|v'| or h + d <= groundY + 0.03, and         *)
(* otherwise the height becomes h + d with isGrounded false.  If d < 0 and *)
(* the probe does not hit, the height becomes h + d with isGrounded false. *)
(***************************************************************************)
C16_VerticalStep ==
    [][lastOp' = "updatePhysics"
         => LET h == positionY
                v1 == physics.velY - GRAVITY * FIXED_TIMESTEP
                d == v1 * FIXED_TIMESTEP
                probe == IntersectDown(collisionMeshes, planetQuat, h, Abs(d) + LOOKAHEAD)
                moved == /\ positionY' = h + d
                         /\ physics'.velY = v1
                         /\ ~physics'.isGrounded
                snapped == /\ positionY' = probe.y + GROUND_OFFSET
                           /\ physics'.velY = 0
                           /\ physics'.isGrounded
            IN  /\ d >= 0 => moved
                /\ (d < 0 /\ probe.hit)
                     => IF \/ h - probe.y <= GROUND_TOLERANCE_BASE
                                               + GROUND_TOLERANCE_PER_VELOCITY * Abs(v1)
                           \/ h + d <= probe.y + GROUND_OFFSET
                        THEN snapped
                        ELSE moved
                /\ (d < 0 /\ ~probe.hit) => moved
                /\ physics'.jumpCharging = physics.jumpCharging
                /\ physics'.jumpChargeTime = physics.jumpChargeTime]_vars

\* a tick of a fall that ended inside the range of the probe and above the
\* tolerance: the probe hit and the tick did not snap
C16_Witness ==
    /\ lastOp = "updatePhysics"
    /\ collisionMeshes = "flat"
    /\ physics.velY < 0
    /\ ~physics.isGrounded
    /\ positionY - GroundLevel < LOOKAHEAD
    /\ positionY - GroundLevel > GROUND_TOLERANCE_BASE
                                   + GROUND_TOLERANCE_PER_VELOCITY * Abs(physics.velY)

(***************************************************************************)
(* SinkSpec: a world whose spawn cube lies under the collision surface.    *)
(* rotateToSpawn places the character at the distance of the cube from the *)
(* planet centre plus half the cube height, whatever the collision meshes  *)
(* are there; here that is SpawnDepth under the flat surface.  The player  *)
(* dismisses the intro and may reset to spawn; the fall is followed up to  *)
(* MaxFallSpeed.                                                           *)
(***************************************************************************)
SpawnDepth == 900
SinkDeltas == {10, 60}

SunkSpawn == [stored |-> TRUE,
              rotation |-> SetFromAxisAngle(<<QScale, 0, 0>>, 1, 4),
              y |-> GroundLevel - SpawnDepth]

SinkInit == InitWith("flat", SunkSpawn, TRUE, ResetY(SunkSpawn))

SinkNext ==
    \/ HideIntroScreen
    \/ ResetToSpawn
    \/ /\ physics.velY > -MaxFallSpeed
       /\ \E rawDelta \in SinkDeltas : AnimateBegin(rawDelta)
    \/ PhysicsStep
    \/ MovementStep
    \/ CameraStep

SinkSpec == SinkInit /\ [][SinkNext]_vars

\* the character is under the collision surface of its world
BelowSurface ==
    /\ collisionMeshes \in {"flat", "walled"}
    /\ positionY < GroundLevel

C18_FreeFall ==
    /\ [][(lastOp' = "updatePhysics" /\ collisionMeshes = "none")
            => /\ ~physics'.isGrounded
               /\ physics'.velY = physics.velY - GRAVITY * FIXED_TIMESTEP
               /\ positionY' < positionY]_vars
    /\ [](collisionMeshes = "none" => ~physics.isGrounded /\ physics.velY <= 0)

\* a tick of the fall more than 10 units under the height at which the flat
\* world has its surface, faster than a fall from the start height onto that
\* surface would have been
C18_Witness ==
    /\ lastOp = "updatePhysics"
    /\ collisionMeshes = "none"
    /\ positionY < GroundLevel - 180000
    /\ physics.velY < -600
    /\ ~physics.isGrounded

(***************************************************************************)
(* C19  Jump charge survives losing the ground (JumpSpec): once            *)
(* jumpCharging is set, only the launch clears it.  A reset to spawn       *)
(* during the charge clears isGrounded and leaves jumpCharging and the     *)
(* charge time as they are; the frames go on adding to the charge time     *)
(* with isGrounded false, and the first frame in which it reaches the      *)
(* delay sets the vertical velocity to the jump impulse, in mid-air.       *)
(***************************************************************************)
C19_ChargeSurvives ==
    /\ [][(physics.jumpCharging /\ ~physics'.jumpCharging)
            => /\ lastOp' = "jumpLaunch"
               /\ physics'.jumpChargeTime >= JUMP_CHARGE_DELAY
               /\ physics'.velY = JUMP_FORCE]_vars
    /\ [][lastOp' = "resetToSpawn"
            => /\ ~physics'.isGrounded
               /\ physics'.jumpCharging = physics.jumpCharging
               /\ physics'.jumpChargeTime = physics.jumpChargeTime]_vars
    /\ [][(pc = "idle" /\ pc' = "physics" /\ physics.jumpCharging /\ ~physics.isGrounded)
            => LET t == physics.jumpChargeTime + deltaTime'
               IN  IF t >= JUMP_CHARGE_DELAY
                   THEN /\ lastOp' = "jumpLaunch"
                        /\ physics'.velY = JUMP_FORCE
                        /\ ~physics'.jumpCharging
                   ELSE /\ physics'.jumpCharging
                        /\ physics'.jumpChargeTime = t]_vars

\* a launch in mid-air: the charge was started on the ground, a reset to
\* spawn lifted the character and the next frame took the charge time to the
\* delay
C19_Witness ==
    /\ lastOp = "jumpLaunch"
    /\ positionY = ResetY(initialSpawn)
    /\ positionY > GroundLevel + GROUND_OFFSET
    /\ physics.velY = JUMP_FORCE
    /\ physics.jumpChargeTime >= JUMP_CHARGE_DELAY
    /\ ~physics.isGrounded /\ ~physics.jumpCharging

(***************************************************************************)
(* C20  Locomotion is gated by camera mode (TripSpec): while               *)
(* detachedCamera is true, handleMovement leaves planetGroup.quaternion as *)
(* it is, whatever keys are held, whatever currentMoveSpeed is and         *)
(* whatever the forward probe would report in any world; the sprint flag,  *)
(* the heading update and the speed envelope run as in follow mode.        *)
(***************************************************************************)
C20_LocomotionGated ==
    [][(lastOp' = "handleMovement" /\ detachedCamera)
         => /\ planetQuat' = planetQuat
            /\ \A meshes \in {"flat", "walled", "none"} :
                   MovedPlanet(meshes, planetQuat, keys, characterRotation',
                               currentMoveSpeed', deltaTime, positionY, detachedCamera)
                     = planetQuat
            /\ isSprinting' = keys.shift
            /\ characterRotation' = TurnedRotation(keys, characterRotation, deltaTime)
            /\ currentMoveSpeed' = NextMoveSpeed(keys, currentMoveSpeed, deltaTime)]_vars

\* handleMovement in bird's eye view with w and a held: the speed has reached
\* the maximum and the character has turned since the view was entered, the
\* planet is where it was
C20_Witness ==
    /\ lastOp = "handleMovement"
    /\ detachedCamera
    /\ keys.w /\ keys.a
    /\ currentMoveSpeed = MAX_MOVE_SPEED
    /\ characterRotation > preToggle.rotation
    /\ planetQuat = preToggle.quat

(***************************************************************************)
(* ZoomSpec: the wheel in both camera modes.  The player dismisses the     *)
(* intro, toggles bird's eye view and turns the wheel by a notch or by a   *)
(* long scroll, either way.                                                *)
(***************************************************************************)
WheelDeltas == {-1500, -100, 100, 1500}

ZoomInit == InitWith("flat", NoSpawn, TRUE, SPAWN_HEIGHT)

ZoomNext ==
    \/ HideIntroScreen
    \/ ToggleBirdEyeView
    \/ \E deltaY \in WheelDeltas : Wheel(deltaY)

ZoomSpec == ZoomInit /\ [][ZoomNext]_vars

(***************************************************************************)
(* C21  Zoom bounds (ZoomSpec): birdEyeDistance is always within           *)
(* [BIRD_EYE_MIN_ZOOM, BIRD_EYE_MAX_ZOOM] = [8, 50]; only a wheel event    *)
(* with detached mode active and the intro off changes it; a wheel event   *)
(* in follow mode leaves it unchanged and moves camera.fov by the scroll,  *)
(* clamped to [40, 100]; during the intro a wheel event changes neither.   *)
(***************************************************************************)
C21_ZoomBounds ==
    /\ [](BIRD_EYE_MIN_ZOOM <= birdEyeDistance /\ birdEyeDistance <= BIRD_EYE_MAX_ZOOM)
    /\ [](FOV_MIN <= cameraFov /\ cameraFov <= FOV_MAX)
    /\ [][birdEyeDistance' # birdEyeDistance
            => lastOp' = "wheel" /\ detachedCamera /\ ~introActive]_vars
    /\ [][(lastOp' = "wheel" /\ ~detachedCamera /\ ~introActive)
            => /\ birdEyeDistance' = birdEyeDistance
               /\ \E deltaY \in WheelDeltas :
                     cameraFov' = IF cameraFov + deltaY < FOV_MIN THEN FOV_MIN
                                  ELSE IF cameraFov + deltaY > FOV_MAX THEN FOV_MAX
                                  ELSE cameraFov + deltaY]_vars
    /\ [][cameraFov' # cameraFov
            => lastOp' = "wheel" /\ ~detachedCamera /\ ~introActive]_vars

\* a long scroll out in bird's eye view, after a long scroll in follow mode:
\* the zoom distance stopped at the maximum, the field of view at the minimum
C21_Witness ==
    /\ lastOp = "wheel"
    /\ detachedCamera
    /\ birdEyeDistance = BIRD_EYE_MAX_ZOOM
    /\ cameraFov = FOV_MIN

(***************************************************************************)
(* C22  Drag gate (BirdSpec): isDragging is never true in follow mode; it  *)
(* becomes true only by a left-button press in detached mode with the      *)
(* intro off, and a left-button release and the exit from detached mode    *)
(* leave it false; a pointer movement changes the orbit rotation only when *)
(* detached mode is active and isDragging is set.                          *)
(***************************************************************************)
C22_DragGate ==
    /\ [](isDragging => detachedCamera)
    /\ [][(~isDragging /\ isDragging')
            => lastOp' = "mousedown" /\ detachedCamera /\ ~introActive]_vars
    /\ [][lastOp' \in {"mouseup", "exitBirdEye"} => ~isDragging']_vars
    /\ [][(lastOp' = "mousemove" /\ birdEyeRotation' # birdEyeRotation)
            => isDragging /\ detachedCamera /\ ~introActive]_vars
    /\ [][birdEyeRotation' # birdEyeRotation
            => lastOp' \in {"mousemove", "enterBirdEye"}]_vars

\* a pointer movement with the button held in bird's eye view has turned the
\* orbit away from the planet rotation the view was entered with
C22_Witness ==
    /\ lastOp = "mousemove"
    /\ isDragging /\ detachedCamera
    /\ birdEyeRotation # preToggle.quat
    /\ planetQuat = preToggle.quat

(***************************************************************************)
(* RestSpec: vertical physics under every handler that touches it or the   *)
(* character position.  Over a flat surface the player jumps, resets to    *)
(* spawn and enters and leaves bird's eye view in any order between frames *)
(* of 0.1 s.  Leaving bird's eye view puts the character back at the saved *)
(* height whatever the physics state is, so heights above a jump can be    *)
(* reached; the run is followed up to MaxAltitude above the surface.       *)
(***************************************************************************)
MaxAltitude == 20000
RestDeltas == {60}

RestInit == InitWith("flat", NoSpawn, FALSE, SPAWN_HEIGHT)

RestNext ==
    \/ JumpRequest
    \/ ResetToSpawn
    \/ ToggleBirdEyeView
    \/ /\ positionY <= GroundLevel + MaxAltitude
       /\ \E rawDelta \in RestDeltas : AnimateBegin(rawDelta)
    \/ PhysicsStep
    \/ MovementStep
    \/ CameraStep

RestSpec == RestInit /\ [][RestNext]_vars

(***************************************************************************)
(* C23  Grounded implies at rest (RestSpec): in every state between        *)
(* handlers, at every frame boundary and after every updatePhysics tick,   *)
(* physics.isGrounded implies that the vertical velocity is 0, whatever    *)
(* the order of ticks, jump requests, launches, resets to spawn and camera *)
(* toggles.                                                                *)
(***************************************************************************)
C23_GroundedAtRest == physics.isGrounded => physics.velY = 0

\* back from bird's eye view at a height saved during a jump, after the
\* character had landed: isGrounded is still set, the velocity is 0, the
\* character is in the air
C23_Witness ==
    /\ lastOp = "exitBirdEye"
    /\ physics.isGrounded
    /\ physics.velY = 0
    /\ positionY > SPAWN_HEIGHT

\* the safety check of a tick from height y with physics p would correct the
\* height: its probe hits and the height after the main resolution is under
\* the hit
SafetyNetFires(meshes, quat, p, y, dt) ==
    LET res == MainResolution(meshes, quat, p, y, dt)
        safetyCheck == IntersectDown(meshes, quat, y, SAFETY_FAR)
    IN  safetyCheck.hit /\ res.y < safetyCheck.y

\* pre-states for the tick taken one by one: heights from under the surface
\* to above the range of the swept probe, velocities from a fast fall to the
\* jump impulse
TickHeights == {GroundLevel + 720 * k : k \in -3 .. 26}
TickVelocities == {100 * k : k \in -7 .. 1}

(***************************************************************************)
(* C24  The safety-net branch is unreachable (DropSpec): in no tick does   *)
(* the safety check find the height after the main resolution under the    *)
(* surface its probe reports, so every tick ends as the main resolution    *)
(* left it; this holds for the ticks of every run and for a tick from any  *)
(* height and velocity of TickHeights and TickVelocities, grounded or not, *)
(* with and without a surface.                                             *)
(***************************************************************************)
C24_SafetyNetUnreachable ==
    /\ [](~SafetyNetFires(collisionMeshes, planetQuat, physics, positionY, FIXED_TIMESTEP))
    /\ [][lastOp' = "updatePhysics"
            => LET res == MainResolution(collisionMeshes, planetQuat, physics, positionY,
                                         FIXED_TIMESTEP)
               IN  positionY' = res.y /\ physics' = res.p]_vars
    /\ [](\A meshes \in DropWorlds, y \in TickHeights,
             v \in TickVelocities, grounded \in BOOLEAN :
             LET p == [physics EXCEPT !.velY = v, !.isGrounded = grounded]
             IN  /\ ~SafetyNetFires(meshes, planetQuat, p, y, FIXED_TIMESTEP)
                 /\ UpdatePhysics(meshes, planetQuat, p, y, FIXED_TIMESTEP)
                      = MainResolution(meshes, planetQuat, p, y, FIXED_TIMESTEP))

\* a tick whose safety probe hit the surface and whose main resolution did
\* not snap: the character is lower than before, still falling above the
\* surface, beyond the range of the swept probe
C24_Witness ==
    /\ lastOp = "updatePhysics"
    /\ collisionMeshes = "flat"
    /\ ~physics.isGrounded
    /\ physics.velY < -100
    /\ positionY - GroundLevel > LOOKAHEAD + 12000
    /\ positionY - GroundLevel < SAFETY_FAR

(***************************************************************************)
(* ProbeSpec: walking forward and backward with and without obstacles.     *)
(* The world is flat (the forward probe never hits) or walled (it hits in  *)
(* every direction, nearer than the minimum clearance in front and farther *)
(* behind); the player holds and releases w and s between frames of        *)
(* 0.1 s.  Walking is followed until the planet has turned by MaxStride.   *)
(***************************************************************************)
MaxStride == 6
ProbeKeys == {"w", "s"}
ProbeDeltas == {60}

ProbeInit == \E meshes \in {"flat", "walled"} : InitWith(meshes, NoSpawn, FALSE, SPAWN_HEIGHT)

ProbeNext ==
    \/ \E k \in ProbeKeys : KeyDown(k)
    \/ \E k \in ProbeKeys : KeyUp(k)
    \/ /\ (keys.w \/ keys.s) => Abs(planetQuat[1]) < MaxStride
       /\ \E rawDelta \in ProbeDeltas : AnimateBegin(rawDelta)
    \/ PhysicsStep
    \/ MovementStep
    \/ CameraStep

ProbeSpec == ProbeInit /\ [][ProbeNext]_vars

(***************************************************************************)
(* C25  Every forward probe hit blocks (ProbeSpec): the probe is           *)
(* horizontal at the character height, so the step height of a hit is     *)
(* CHARACTER_HEIGHT (0.075), above the limit of 0.05; checkForwardCollision*)
(* is true exactly when the probe hits, nearer or farther than the minimum *)
(* clearance, and a handleMovement tick that is to move the planet leaves  *)
(* it where it is exactly when the probe hits.                             *)
(***************************************************************************)
C25_EveryHitBlocks ==
    /\ [](\A meshes \in {"flat", "walled", "none"}, direction \in {-1, 1}, y \in TickHeights :
             LET fwd == ForwardIntersect(meshes, planetQuat, characterRotation, direction, y)
             IN  /\ fwd.hit => /\ fwd.y - (y - CHARACTER_HEIGHT) = CHARACTER_HEIGHT
                               /\ CHARACTER_HEIGHT > STEP_HEIGHT_LIMIT
                 /\ CheckForwardCollision(meshes, planetQuat, characterRotation, direction, y)
                      = fwd.hit)
    /\ [][(lastOp' = "handleMovement" /\ ~detachedCamera
              /\ currentMoveSpeed' > 0 /\ (keys.w \/ keys.s))
            => LET direction == IF keys.w THEN -1 ELSE 1
                   fwd == ForwardIntersect(collisionMeshes, planetQuat, characterRotation',
                                           direction, positionY)
               IN  planetQuat' =
                     IF fwd.hit
                     THEN planetQuat
                     ELSE MultiplyQuaternions(
                              WalkRotation(characterRotation', direction,
                                           currentMoveSpeed', deltaTime), planetQuat)]_vars

\* a tick walking backward at full walking speed towards an obstacle farther
\* than the minimum clearance: the rotation would have moved the planet and
\* the planet has not moved
C25_Witness ==
    /\ lastOp = "handleMovement"
    /\ collisionMeshes = "walled"
    /\ keys.s /\ ~keys.w /\ currentMoveSpeed = MAX_MOVE_SPEED
    /\ ForwardIntersect(collisionMeshes, planetQuat, characterRotation, 1, positionY).distance
          >= MIN_CLEARANCE
    /\ MultiplyQuaternions(WalkRotation(characterRotation, 1, currentMoveSpeed, deltaTime),
                           planetQuat) # planetQuat
    /\ planetQuat = IdentityQuat

(***************************************************************************)
(* ToggleSpec: camera toggles while physics and movement run.  Over a flat *)
(* surface the player holds or releases w, jumps and enters and leaves     *)
(* bird's eye view between frames of 0.1 s; the run is followed up to      *)
(* MaxAltitude above the surface and MaxStride of planet rotation.         *)
(***************************************************************************)
ToggleDeltas == {60}

ToggleInit == InitWith("flat", NoSpawn, FALSE, SPAWN_HEIGHT)

ToggleNext ==
    \/ KeyDown("w")
    \/ KeyUp("w")
    \/ JumpRequest
    \/ ToggleBirdEyeView
    \/ /\ positionY <= GroundLevel + MaxAltitude
       /\ keys.w => Abs(planetQuat[1]) < MaxStride
       /\ \E rawDelta \in ToggleDeltas : AnimateBegin(rawDelta)
    \/ PhysicsStep
    \/ MovementStep
    \/ CameraStep

ToggleSpec == ToggleInit /\ [][ToggleNext]_vars

(***************************************************************************)
(* C26  Camera-mode toggling does not touch physics or speed state         *)
(* (ToggleSpec): entering and leaving bird's eye view leave the vertical   *)
(* velocity, isGrounded, jumpCharging, jumpChargeTime and currentMoveSpeed *)
(* as they are; on leaving, the height becomes the saved one while these   *)
(* keep the values the ticks run in bird's eye view gave them.             *)
(***************************************************************************)
C26_ToggleKeepsPhysics ==
    /\ [][lastOp' \in {"enterBirdEye", "exitBirdEye"}
            => /\ physics'.velY = physics.velY
               /\ physics'.isGrounded = physics.isGrounded
               /\ physics'.jumpCharging = physics.jumpCharging
               /\ physics'.jumpChargeTime = physics.jumpChargeTime
               /\ currentMoveSpeed' = currentMoveSpeed]_vars
    /\ [][lastOp' = "exitBirdEye" => positionY' = preToggle.y]_vars

\* back from a stay in bird's eye view that was entered in the air over
\* spawn, in which the character landed, w brought the speed to the maximum
\* and a jump was charged for 0.2 s: the height is that of spawn again, and
\* isGrounded, the charge and the speed are those of the stay
C26_Witness ==
    /\ lastOp = "exitBirdEye"
    /\ positionY = SPAWN_HEIGHT
    /\ physics.isGrounded /\ physics.velY = 0
    /\ physics.jumpCharging /\ physics.jumpChargeTime = 2 * MAX_DELTA
    /\ currentMoveSpeed = MAX_MOVE_SPEED

(***************************************************************************)
(* CamSpec: the follow distance in both camera modes.  In the walled world *)
(* (walking is blocked, the planet stays) the player holds and releases w  *)
(* and shift and toggles bird's eye view between frames of 0.1 s.          *)
(***************************************************************************)
CamKeys == {"w", "shift"}
CamDeltas == {60}

CamInit == InitWith("walled", NoSpawn, FALSE, SPAWN_HEIGHT)

CamNext ==
    \/ \E k \in CamKeys : KeyDown(k)
    \/ \E k \in CamKeys : KeyUp(k)
    \/ ToggleBirdEyeView
    \/ Frame(CamDeltas)

CamSpec == CamInit /\ [][CamNext]_vars

(***************************************************************************)
(* C27  Camera distance bounds (CamSpec): currentCameraDistance is always  *)
(* within [CAMERA_DISTANCE_IDLE, CAMERA_DISTANCE_SPRINTING] = [1.2, 2.5];  *)
(* a camera update in follow mode leaves it on the same side of the        *)
(* current target and no farther from it, nearer when the gap is at least  *)
(* one lerp step of the model's resolution; a camera update in detached    *)
(* mode leaves it unchanged, and nothing else writes it.                   *)
(***************************************************************************)
C27_CameraDistance ==
    /\ [](/\ CAMERA_DISTANCE_IDLE <= currentCameraDistance
          /\ currentCameraDistance <= CAMERA_DISTANCE_SPRINTING)
    /\ [][(lastOp' = "updateCamera" /\ ~detachedCamera)
            => LET gap  == ClaimedTarget - currentCameraDistance
                   gap2 == ClaimedTarget - currentCameraDistance'
               IN  /\ gap >= 0 => (0 <= gap2 /\ gap2 <= gap)
                   /\ gap <= 0 => (gap <= gap2 /\ gap2 <= 0)
                   /\ Abs(gap) >= LERP_DIVISOR => Abs(gap2) < Abs(gap)]_vars
    /\ [][(lastOp' = "updateCamera" /\ detachedCamera)
            => currentCameraDistance' = currentCameraDistance]_vars
    /\ [][currentCameraDistance' # currentCameraDistance
            => lastOp' = "updateCamera" /\ ~detachedCamera]_vars

\* a camera update in bird's eye view with w and shift held: the distance,
\* between the walking and the sprinting one from the sprint before the view
\* was entered, has stayed where it was
C27_Witness ==
    /\ lastOp = "updateCamera"
    /\ detachedCamera
    /\ keys.w /\ isSprinting
    /\ currentCameraDistance > CAMERA_DISTANCE_WALKING
    /\ currentCameraDistance < CAMERA_DISTANCE_SPRINTING

(***************************************************************************)
(* QualitySpec: the running game with the performance manager followed.    *)
(* Every frame samples the frame rate (60 fps or 20 fps) and, in auto      *)
(* mode, adjusts the quality tier; q switches auto mode and the quality    *)
(* button of the escape menu cycles the tiers.  The frame rate is 60, 30   *)
(* or 20 fps and changes only when the whole history holds one rate and    *)
(* no tier change is pending.                                              *)
(***************************************************************************)
QualityDeltas == {10, 20, 30}

SteadyRate(pm, fps) ==
    IF pm.fpsHistory = << >> THEN TRUE
    ELSE IF fps = pm.fpsHistory[Len(pm.fpsHistory)] THEN TRUE
    ELSE /\ Len(pm.fpsHistory) = FPS_HISTORY_SIZE
         /\ \A i \in 1 .. Len(pm.fpsHistory) : pm.fpsHistory[i] = pm.fpsHistory[1]
         /\ pm.stabilizationTimer = 0

QualityInit == InitWith("flat", NoSpawn, FALSE, SPAWN_HEIGHT)

QualityNext ==
    \/ ToggleAutoQuality
    \/ CycleQuality
    \/ \E rawDelta \in QualityDeltas :
          /\ SteadyRate(performanceManager, TICKS_PER_SECOND \div rawDelta)
          /\ AnimateAll(rawDelta)
    \/ PhysicsStep
    \/ MovementStep
    \/ CameraStep

QualitySpec == QualityInit /\ [][QualityNext]_vars

\* a step of animate, which calls performanceManager.update
UpdateStep == pc = "idle" /\ pc' = "physics"

(***************************************************************************)
(* C28  Quality-tier hysteresis (QualitySpec): a frame changes currentTier *)
(* only in auto mode, only with at least 30 FPS samples, only to the tier  *)
(* that was already the target before the frame, only by one tier, and     *)
(* only when stabilizationTimer with this frame's deltaTime reaches 2.0 s  *)
(* for a downgrade or 5.0 s for an upgrade; whenever the target tier       *)
(* changes the timer restarts at 0; a frame in manual mode leaves          *)
(* currentTier alone.                                                      *)
(***************************************************************************)
C28_Hysteresis ==
    [][ LET pm == performanceManager
            after == performanceManager'
        IN  /\ (UpdateStep /\ after.currentTier # pm.currentTier) =>
                  /\ pm.isAuto
                  /\ Len(after.fpsHistory) >= MIN_SAMPLES
                  /\ after.currentTier = pm.targetTier
                  /\ after.targetTier = pm.targetTier
                  /\ Abs(after.currentTier - pm.currentTier) = 1
                  /\ pm.stabilizationTimer + deltaTime' >=
                        (IF after.currentTier > pm.currentTier
                         THEN DOWNGRADE_DELAY ELSE UPGRADE_DELAY)
            /\ after.targetTier # pm.targetTier =>
                  /\ after.stabilizationTimer = 0
                  /\ after.currentTier = pm.currentTier
            /\ (UpdateStep /\ ~pm.isAuto) => after.currentTier = pm.currentTier
      ]_vars

\* an upgrade has just been applied: the frame rate has been 60 fps for the
\* whole history, and the frame left tier 1 both current and target, which
\* no frame does from tier 1 itself
C28_Witness ==
    /\ pc = "physics"
    /\ performanceManager.isAuto
    /\ performanceManager.currentTier = 1
    /\ performanceManager.targetTier = 1
    /\ performanceManager.stabilizationTimer = 0
    /\ Len(performanceManager.fpsHistory) = FPS_HISTORY_SIZE
    /\ \A i \in 1 .. FPS_HISTORY_SIZE : performanceManager.fpsHistory[i] = 60

(***************************************************************************)
(* C29  Quality cycling (QualitySpec): cycleQuality in auto mode gives     *)
(* manual mode at the same tier, in manual mode below the last tier the    *)
(* next tier, and in manual mode at the last tier auto mode at tier 0; and *)
(* currentTier is always one of 0 .. 5.                                    *)
(***************************************************************************)
C29_Cycle ==
    [][ /\ performanceManager'.currentTier \in 0 .. LAST_TIER
        /\ lastOp' = "cycleQuality" /\ performanceManager' # performanceManager =>
              LET pm == performanceManager
                  after == performanceManager'
              IN  IF pm.isAuto
                  THEN ~after.isAuto /\ after.currentTier = pm.currentTier
                  ELSE IF pm.currentTier < LAST_TIER
                       THEN ~after.isAuto /\ after.currentTier = pm.currentTier + 1
                       ELSE after.isAuto /\ after.currentTier = 0
      ]_vars

\* the cycle has wrapped around: cycleQuality has just given auto mode
C29_Witness ==
    /\ lastOp = "cycleQuality"
    /\ performanceManager.isAuto
    /\ performanceManager.currentTier = 0
    /\ Len(performanceManager.fpsHistory) >= MIN_SAMPLES

(***************************************************************************)
(* SolarSpec: the solar-system page.  The browser dispatches mousedown,    *)
(* any number of mousemove, mouseup and then click to the canvas; the      *)
(* preview panel's close button calls resetToOverview.  The pointer is at  *)
(* one of SolarXs and the camera swings at most MaxSwing either way.       *)
(***************************************************************************)
MaxSwing == 600
SolarXs == {0, 100, 200, 300}

gameVars == <<inputVars, bodyVars, characterRotation, planetQuat, worldVars, moveVars,
              currentCameraDistance, detachedCamera, dragVars, savedVars,
              physicsAccumulator, deltaTime, pc, preToggle, zoomVars, performanceManager>>

\* onMouseDown(event)
OnMouseDown(clientX) ==
    /\ solar.button = "up"
    /\ solar' = [solar EXCEPT !.isDragging = TRUE, !.previousMouseX = clientX,
                              !.button = "down", !.dragged = FALSE]
    /\ lastOp' = "mousedown"
    /\ UNCHANGED gameVars

\* onMouseMove(event)
OnMouseMove(clientX) ==
    /\ solar.button # "released"
    /\ LET deltaX == clientX - solar.previousMouseX
           rotates == solar.isDragging /\ solar.mode = "overview"
       IN  /\ rotates => Abs(solar.cameraAngle - deltaX) <= MaxSwing
           /\ solar' = [solar EXCEPT
                           !.cameraAngle = IF rotates THEN @ - deltaX ELSE @,
                           !.previousMouseX = clientX,
                           !.dragged = @ \/ (solar.button = "down" /\ deltaX # 0)]
    /\ lastOp' = "mousemove"
    /\ UNCHANGED gameVars

\* onMouseUp(event)
OnMouseUp ==
    /\ solar.button = "down"
    /\ solar' = [solar EXCEPT !.isDragging = FALSE, !.button = "released"]
    /\ lastOp' = "mouseup"
    /\ UNCHANGED gameVars

\* onMouseClick(event); hit says whether the ray through the pointer meets a
\* planet; onPlanetClick sets state.mode
OnMouseClick(hit) ==
    /\ solar.button = "released"
    /\ IF solar.isDragging
       THEN /\ solar' = [solar EXCEPT !.button = "up"]
            /\ lastOp' = "click"
       ELSE IF solar.mode = "overview" /\ hit
            THEN /\ solar' = [solar EXCEPT !.button = "up", !.mode = "preview"]
                 /\ lastOp' = "onPlanetClick"
            ELSE /\ solar' = [solar EXCEPT !.button = "up"]
                 /\ lastOp' = "click"
    /\ UNCHANGED gameVars

\* resetToOverview(), from the preview panel's close button
ResetToOverview ==
    /\ solar.mode = "preview"
    /\ solar.button = "up"
    /\ solar' = [solar EXCEPT !.mode = "overview"]
    /\ lastOp' = "resetToOverview"
    /\ UNCHANGED gameVars

SolarInit == InitWith("flat", NoSpawn, TRUE, SPAWN_HEIGHT)

SolarNext ==
    \/ \E clientX \in SolarXs : OnMouseDown(clientX)
    \/ \E clientX \in SolarXs : OnMouseMove(clientX)
    \/ OnMouseUp
    \/ \E hit \in BOOLEAN : OnMouseClick(hit)
    \/ ResetToOverview

SolarSpec == SolarInit /\ [][SolarNext]_vars

(***************************************************************************)
(* C30  Solar-system click guard (SolarSpec): when the click that follows  *)
(* mousedown, mousemove, mouseup is dispatched over a planet in overview   *)
(* mode, onMouseClick does not call onPlanetClick and state.mode stays     *)
(* "overview".                                                             *)
(***************************************************************************)
C30_ClickGuard ==
    [][ (/\ solar.button = "released"
         /\ solar.dragged
         /\ solar.mode = "overview"
         /\ solar'.button = "up")
        => (lastOp' # "onPlanetClick" /\ solar'.mode = "overview") ]_vars

=============================================================================
